---- MODULE Spec2Model ----
(***************************************************************************)
(* Route rendering core of seanyao/p0: the geometry engine of              *)
(* utils/performance.ts (PerformanceOptimizer) and the render pipeline of  *)
(* services/visualRenderer.ts (CanvasVisualRenderer).                      *)
(*                                                                         *)
(* Numbers.  Path coordinates are drawn from a small integer grid.  A     *)
(* distance is kept exactly, as the rational [n, d] that is the SQUARE of  *)
(* the value the code computes with Math.sqrt; a tolerance is the rational *)
(* [n, d] itself.  Comparisons are done by cross-multiplication, so they   *)
(* are the comparisons of the real numbers the doubles approximate.        *)
(*                                                                         *)
(* Identity.  A PathPoint is a JavaScript object; its field id stands for  *)
(* the object's identity and is the position the object has in the input   *)
(* array.  No operation reads id.                                          *)
(***************************************************************************)
EXTENDS Integers, Sequences, FiniteSets, TLC

VARIABLES
    \* geometry engine: one call of a pure function
    points,        \* the PathPoint[] argument
    gOp,           \* the function applied: "none" before the call
    gArg,          \* its other argument (tolerance, canvas size, viewport+margin)
    gOut,          \* its completion: [threw, value]
    \* CanvasVisualRenderer
    canvas,        \* this.canvas: [present, isCanvas, width, height, hasCtx]; null is not present
    ctx,           \* this.ctx is set (a 2D context was obtained)
    optimizationOptions,   \* this.optimizationOptions
    frame,         \* the bitmap this.ctx draws on, as the drawing operations since the last clear
    ctxStyle,      \* the drawing state of this.ctx: [strokeStyle, lineWidth, shadowBlur]
    pc,            \* position inside renderRouteMap ("Idle" between calls)
    call,          \* the running call: its arguments, its locals and the stages it has run
    prevFrame,     \* frame when the running (or last) call started
    lastRender,    \* the call that returned just before the running one, if its arguments were the same
    outcome,       \* how the last operation of the renderer ended ("running" inside a call)
    renderTimes,   \* PerformanceOptimizer.renderTimes
    fpsHistory,    \* PerformanceOptimizer.fpsHistory
    nCalls,        \* renderRouteMap calls made so far
    recorded,      \* samples pushed on each buffer since it was last emptied
    \* PerformanceOptimizer: the canvas cache
    renderCache,   \* this.renderCache: key -> ImageData
    spare,         \* the bitmap of a second canvas, one the renderer does not own
    snapshots,     \* key -> the bitmap the last storing cacheCanvas(key, ...) read
    cOut,          \* the last cache operation and its completion
    \* StyleManager
    currentTheme,  \* this.currentTheme
    customStyles,  \* this.customStyles: theme id -> Partial<StyleConfig>
    themeChangeListeners,  \* this.themeChangeListeners
    exported,      \* the text an exportStyleConfig call returned, and the state it was taken in
    notified,      \* the listener invocations of the last operation, in order
    sOut           \* the last StyleManager operation and its completion

gvars == <<points, gOp, gArg, gOut>>
rvars == <<canvas, ctx, optimizationOptions, frame, ctxStyle, pc, call, prevFrame, lastRender,
           outcome, renderTimes, fpsHistory, nCalls, recorded>>
cvars == <<renderCache, spare, snapshots, cOut>>
svars == <<currentTheme, customStyles, themeChangeListeners, exported, notified, sOut>>
vars == <<points, gOp, gArg, gOut, canvas, ctx, optimizationOptions, frame, ctxStyle, pc, call,
          prevFrame, lastRender, outcome, renderTimes, fpsHistory, nCalls, recorded,
          renderCache, spare, snapshots, cOut,
          currentTheme, customStyles, themeChangeListeners, exported, notified, sOut>>

(***************************************************************************)
(* Bounds of the model                                                     *)
(***************************************************************************)
GridMax == 1          \* x coordinates range over 0..GridMax
MaxLen == 4           \* longest enumerated path
MaxStack == 8         \* call-stack depth at which the engine raises RangeError
MaxLocations == 2     \* most locations of a route
MaxCalls == 2         \* renderRouteMap calls in one behaviour
MaxListeners == 2     \* most registrations of theme-change listeners
MaxSamples == 102     \* most samples recorded on one buffer between two resets
MaxLabels == 3        \* most points given to calculateOptimalLabelPositions

Rat(n, d) == [n |-> n, d |-> d]
Zero == Rat(0, 1)

Xs == 0 .. GridMax
Ys == {0, 2}

\* all PathPoint arrays of length n over the grid; object i sits at index i
PathsOfLen(n) ==
    { [i \in 1 .. n |-> [x |-> xy[i][1], y |-> xy[i][2], id |-> i]] :
        xy \in [1 .. n -> Xs \X Ys] }

ShortPaths == UNION { PathsOfLen(n) : n \in 0 .. MaxLen }

\* long paths, to reach the point-count tiers of applyLOD: every point sits on
\* (0,0) but the last, on (2,0); a "spike" path has its middle point on (1,4)
LongLens == {201, 501, 1001}
LongPath(n, spike) ==
    [i \in 1 .. n |->
        IF i = n THEN [x |-> 2, y |-> 0, id |-> i]
        ELSE IF spike /\ i = n \div 2 THEN [x |-> 1, y |-> 4, id |-> i]
        ELSE [x |-> 0, y |-> 0, id |-> i]]
LongPaths == { LongPath(n, s) : n \in LongLens, s \in BOOLEAN }

\* the path of the repository's documented example (tolerance 5)
ExamplePath ==
    << [x |-> 100, y |-> 100, id |-> 1], [x |-> 200, y |-> 150, id |-> 2],
       [x |-> 300, y |-> 200, id |-> 3], [x |-> 400, y |-> 250, id |-> 4] >>

Tolerances == { Rat(-1, 1), Rat(0, 1), Rat(1, 2), Rat(1, 1), Rat(5, 1) }

(***************************************************************************)
(* Geometry engine                                                         *)
(***************************************************************************)
\* a < b for two distances (both are squares of non-negative numbers)
DistLess(a, b) == a.n * b.d < b.n * a.d

\* distance > tolerance, the distance being non-negative
DistExceeds(distance, tolerance) ==
    \/ tolerance.n < 0
    \/ distance.n * tolerance.d * tolerance.d > tolerance.n * tolerance.n * distance.d

\* PerformanceOptimizer.pointToLineDistance: the distance from point to the
\* segment lineStart-lineEnd, squared.  param = dot / lenSq, so param < 0 is
\* dot < 0 and param > 1 is dot > lenSq.  Between the two, with
\* dx = A - param * C and dy = B - param * D,
\*   dx * dx + dy * dy = (A * D - B * C)^2 / lenSq.
pointToLineDistance(point, lineStart, lineEnd) ==
    LET A == point.x - lineStart.x
        B == point.y - lineStart.y
        C == lineEnd.x - lineStart.x
        D == lineEnd.y - lineStart.y
        dot == A * C + B * D
        lenSq == C * C + D * D
    IN  IF lenSq = 0 THEN Rat(A * A + B * B, 1)
        ELSE IF dot < 0
            THEN Rat((point.x - lineStart.x) * (point.x - lineStart.x)
                     + (point.y - lineStart.y) * (point.y - lineStart.y), 1)
        ELSE IF dot > lenSq
            THEN Rat((point.x - lineEnd.x) * (point.x - lineEnd.x)
                     + (point.y - lineEnd.y) * (point.y - lineEnd.y), 1)
        ELSE Rat((A * D - B * C) * (A * D - B * C), lenSq)

\* the loop of douglasPeucker, for (i = lo; i <= hi; i++), entered with
\* acc = [maxDistance, maxIndex]; indices are the code's, from 0.  The range is
\* walked left to right, split in halves to keep the evaluation shallow.
RECURSIVE FindFarthest(_, _, _, _)
FindFarthest(pts, lo, hi, acc) ==
    IF lo > hi THEN acc
    ELSE IF lo = hi THEN
        LET distance == pointToLineDistance(pts[lo + 1], pts[1], pts[Len(pts)])
        IN  IF DistLess(acc.maxDistance, distance)       \* distance > maxDistance
            THEN [maxDistance |-> distance, maxIndex |-> lo]
            ELSE acc
    ELSE LET mid == (lo + hi) \div 2
             left == FindFarthest(pts, lo, mid, acc)
         IN  \* the test is always true: it makes the left half evaluated first
             IF left.maxIndex >= 0 THEN FindFarthest(pts, mid + 1, hi, left) ELSE left

Returned(v) == [threw |-> FALSE, value |-> v]
RangeError == [threw |-> TRUE, value |-> <<>>]

\* points.slice(from, to), indices from 0, to exclusive
Slice(pts, from, to) == SubSeq(pts, from + 1, to)

\* splits only when the farthest point is more than twice the tolerance away
shouldSplit_doubled(maxDistance, tolerance) ==
    DistExceeds(maxDistance, Rat(2 * tolerance.n, tolerance.d))

\* douglasPeucker: if (maxDistance > tolerance)
shouldSplit(maxDistance, tolerance) == DistExceeds(maxDistance, tolerance)

\* keeps the split point twice
mergeParts_keepDuplicate(leftPart, rightPart) == leftPart \o rightPart

\* drops the split point from both parts
mergeParts_dropBoth(leftPart, rightPart) ==
    Slice(leftPart, 0, Len(leftPart) - 1) \o Slice(rightPart, 1, Len(rightPart))

\* douglasPeucker: [...leftPart.slice(0, -1), ...rightPart]
mergeParts(leftPart, rightPart) == Slice(leftPart, 0, Len(leftPart) - 1) \o rightPart

\* ends on the point before the last
collapse_offByOne(pts) == <<pts[1], pts[Len(pts) - 1]>>

\* douglasPeucker: return [points[0], points[end]]
collapse(pts) == <<pts[1], pts[Len(pts)]>>

\* PerformanceOptimizer.douglasPeucker; depth is the number of frames of it on
\* the call stack, and the engine throws RangeError when the stack is exhausted
RECURSIVE douglasPeucker(_, _, _)
douglasPeucker(pts, tolerance, depth) ==
    IF depth > MaxStack THEN RangeError
    ELSE IF Len(pts) <= 2 THEN Returned(pts)
    ELSE
        LET end == Len(pts) - 1
            far == FindFarthest(pts, 1, end - 1, [maxDistance |-> Zero, maxIndex |-> 0])
        IN  IF shouldSplit(far.maxDistance, tolerance)
            THEN LET leftPart == douglasPeucker(Slice(pts, 0, far.maxIndex + 1),
                                                tolerance, depth + 1)
                 IN  IF leftPart.threw THEN RangeError
                     ELSE LET rightPart == douglasPeucker(Slice(pts, far.maxIndex, Len(pts)),
                                                          tolerance, depth + 1)
                          IN  IF rightPart.threw THEN RangeError
                              ELSE Returned(mergeParts(leftPart.value, rightPart.value))
            ELSE Returned(collapse(pts))

\* ignores the tolerance it is given and uses the default, 2.0
simplifyPath_defaultTolerance(pts, tolerance) ==
    IF Len(pts) <= 2 THEN Returned(pts)
    ELSE douglasPeucker(pts, Rat(2, 1), 1)

\* PerformanceOptimizer.simplifyPath
simplifyPath(pts, tolerance) ==
    IF Len(pts) <= 2 THEN Returned(pts)
    ELSE douglasPeucker(pts, tolerance, 1)

CanvasSizes ==
    { [width |-> 0, height |-> 0], [width |-> 800, height |-> 600],
      [width |-> 1080, height |-> 1080], [width |-> 2000, height |-> 2000] }

\* applyLOD: the tolerance picked from the canvas area and the point count
lodTolerance(complexity, totalPixels) ==
    IF totalPixels < 500000 THEN (IF complexity > 200 THEN Rat(3, 1) ELSE Rat(3, 2))
    ELSE IF totalPixels < 2000000 THEN (IF complexity > 500 THEN Rat(5, 2) ELSE Rat(1, 1))
    ELSE (IF complexity > 1000 THEN Rat(2, 1) ELSE Rat(1, 2))

\* PerformanceOptimizer.applyLOD
applyLOD(pts, canvasSize) ==
    simplifyPath(pts, lodTolerance(Len(pts), canvasSize.width * canvasSize.height))

Viewports ==
    { [x |-> 0, y |-> 0, width |-> 1, height |-> 1],
      [x |-> 1, y |-> 1, width |-> 0, height |-> 0],
      [x |-> 0, y |-> 2, width |-> 2, height |-> 0] }
Margins == {-1, 0, 1}

\* the expanded viewport of cullOutsideViewport
expandedBounds(viewport, margin) ==
    [left |-> viewport.x - margin,
     right |-> viewport.x + viewport.width + margin,
     top |-> viewport.y - margin,
     bottom |-> viewport.y + viewport.height + margin]

\* drops the points that lie on the border of the expanded viewport
cullOutsideViewport_exclusive(pts, viewport, margin) ==
    LET bounds == expandedBounds(viewport, margin)
    IN  SelectSeq(pts, LAMBDA point :
            /\ point.x > bounds.left
            /\ point.x < bounds.right
            /\ point.y > bounds.top
            /\ point.y < bounds.bottom)

\* PerformanceOptimizer.cullOutsideViewport
cullOutsideViewport(pts, viewport, margin) ==
    LET bounds == expandedBounds(viewport, margin)
    IN  SelectSeq(pts, LAMBDA point :
            /\ point.x >= bounds.left
            /\ point.x <= bounds.right
            /\ point.y >= bounds.top
            /\ point.y <= bounds.bottom)

(***************************************************************************)
(* Geometry engine: one call of one function on one input                  *)
(***************************************************************************)
\* a PerformanceMetrics; memoryUsage is [defined, v], undefined where the host
\* has no performance.memory
NoMetrics ==
    [frameRate |-> 0, renderTime |-> 0, elementCount |-> 0,
     memoryUsage |-> [defined |-> FALSE, v |-> 0], canvasSize |-> [width |-> 0, height |-> 0]]

NoArg ==
    [tolerance |-> Zero, canvasSize |-> [width |-> 0, height |-> 0],
     viewport |-> [x |-> 0, y |-> 0, width |-> 0, height |-> 0], margin |-> 0,
     metrics |-> NoMetrics, labelHeight |-> 0, minDistance |-> 0]

GeometryInit ==
    /\ points \in ShortPaths \cup LongPaths \cup {ExamplePath}
    /\ gOp = "none"
    /\ gArg = NoArg
    /\ gOut = Returned(<<>>)

SimplifyPath(tolerance) ==
    /\ gOp = "none"
    /\ gOp' = "simplifyPath"
    /\ gArg' = [NoArg EXCEPT !.tolerance = tolerance]
    /\ gOut' = simplifyPath(points, tolerance)
    /\ UNCHANGED <<points, rvars, cvars, svars>>

ApplyLOD(canvasSize) ==
    /\ gOp = "none"
    /\ gOp' = "applyLOD"
    /\ gArg' = [NoArg EXCEPT !.canvasSize = canvasSize]
    /\ gOut' = applyLOD(points, canvasSize)
    /\ UNCHANGED <<points, rvars, cvars, svars>>

CullOutsideViewport(viewport, margin) ==
    /\ gOp = "none"
    /\ gOp' = "cullOutsideViewport"
    /\ gArg' = [NoArg EXCEPT !.viewport = viewport, !.margin = margin]
    /\ gOut' = Returned(cullOutsideViewport(points, viewport, margin))
    /\ UNCHANGED <<points, rvars, cvars, svars>>

GeometryNext ==
    \/ \E tolerance \in Tolerances : SimplifyPath(tolerance)
    \/ \E canvasSize \in CanvasSizes : ApplyLOD(canvasSize)
    \/ \E viewport \in Viewports, margin \in Margins : CullOutsideViewport(viewport, margin)

(***************************************************************************)
(* CanvasVisualRenderer                                                    *)
(***************************************************************************)
\* PerformanceOptimizer.DEFAULT_OPTIONS
DEFAULT_OPTIONS ==
    [enableLOD |-> TRUE, maxPoints |-> 1000, simplificationTolerance |-> Rat(2, 1),
     enableCaching |-> TRUE, batchSize |-> 50]

\* the option objects given to setOptimizationOptions
OptionPatches ==
    { [enableLOD |-> FALSE],
      [maxPoints |-> 2],
      [simplificationTolerance |-> Rat(-1, 1)],
      [enableLOD |-> TRUE, maxPoints |-> 1000, simplificationTolerance |-> Rat(2, 1)] }

NoCanvas == [present |-> FALSE, isCanvas |-> FALSE, width |-> 0, height |-> 0, hasCtx |-> FALSE]
\* the elements given to initCanvas, with the size initCanvas leaves them with:
\* null, an element that is no canvas (an image: it has a width and a height but
\* no getContext), a canvas that yields no 2D context, a canvas that yields one
InitCanvases ==
    { NoCanvas,
      [present |-> TRUE, isCanvas |-> FALSE, width |-> 800, height |-> 600, hasCtx |-> FALSE],
      [present |-> TRUE, isCanvas |-> TRUE, width |-> 800, height |-> 600, hasCtx |-> FALSE],
      [present |-> TRUE, isCanvas |-> TRUE, width |-> 800, height |-> 600, hasCtx |-> TRUE] }

MkPath(xys) == [i \in 1 .. Len(xys) |-> [x |-> xys[i][1], y |-> xys[i][2], id |-> i]]
RoutePaths ==
    { MkPath(<<>>),
      MkPath(<< <<0, 0>> >>),
      MkPath(<< <<0, 0>>, <<1, 0>>, <<2, 0>> >>),
      MkPath(<< <<0, 0>>, <<1, 1>>, <<2, 0>> >>) }

\* a LocationInfo: its name ("" draws no label) and whether it carries coordinates
Locations == [name : {"", "A"}, hasCoordinates : BOOLEAN]
LocationLists == UNION { [1 .. n -> Locations] : n \in 0 .. MaxLocations }

\* a StyleConfig argument; defined = FALSE is the argument undefined
Styles ==
    { [defined |-> TRUE, colorScheme |-> "blue"],
      [defined |-> FALSE, colorScheme |-> ""] }

\* COLOR_SCHEMES[id].primary
SchemePrimary(id) ==
    CASE id = "blue" -> "#4A90E2"
      [] id = "orange" -> "#FF8C42"
      [] id = "green" -> "#7ED321"
      [] id = "purple" -> "#9013FE"
      [] id = "red" -> "#FF4757"
      [] OTHER -> "#4A90E2"        \* COLOR_SCHEMES[id] || COLOR_SCHEMES['blue']

Durations == {5, 20}      \* performance.now() - startTime, in ms
FrameRates == {0, 60}     \* the fps sample of recordFrame; 0: deltaTime = 0, no sample

\* a drawing operation on the canvas, with the colour and the shadow blur of the
\* context when it is issued
DrawOp(op, path, loc, color, shadowBlur) ==
    [op |-> op, path |-> path, loc |-> loc, color |-> color, shadowBlur |-> shadowBlur]

\* the drawing state of a context that was just obtained or reset
DefaultCtxStyle == [strokeStyle |-> "#000000", lineWidth |-> 1, shadowBlur |-> 0]

NoCall ==
    [routeData |-> [locations |-> <<>>, path |-> <<>>],
     style |-> [defined |-> FALSE, colorScheme |-> ""],
     optimizedPath |-> <<>>, pathColor |-> "", markers |-> <<>>, next |-> 0, log |-> <<>>]

\* nothing recorded yet
NoSamples == [renderTimes |-> 0, frames |-> 0]

NoRender ==
    [valid |-> FALSE, routeData |-> [locations |-> <<>>, path |-> <<>>],
     style |-> [defined |-> FALSE, colorScheme |-> ""], frame |-> <<>>]

RenderInit ==
    /\ canvas = NoCanvas
    /\ ctx = FALSE
    /\ optimizationOptions = DEFAULT_OPTIONS
    /\ frame = <<>>
    /\ ctxStyle = DefaultCtxStyle
    /\ pc = "Idle"
    /\ call = NoCall
    /\ prevFrame = <<>>
    /\ lastRender = NoRender
    /\ outcome = "none"
    /\ renderTimes = <<>>
    /\ fpsHistory = <<>>
    /\ nCalls = 0
    /\ recorded = NoSamples

\* CanvasVisualRenderer.initCanvas
InitCanvas(c) ==
    /\ pc = "Idle"
    /\ canvas' = c
    /\ lastRender' = NoRender
    /\ IF ~c.present \/ ~c.isCanvas
       THEN \* TypeError: canvas is null, or canvas.getContext is not a function
            /\ outcome' = "initThrew"
            /\ UNCHANGED <<ctx, frame, ctxStyle>>
       ELSE /\ ctx' = c.hasCtx
            /\ IF c.hasCtx
               THEN /\ outcome' = "initialized"
                    \* assigning canvas.width resets the bitmap and the context
                    /\ frame' = <<>>
                    /\ ctxStyle' = DefaultCtxStyle
               ELSE \* throw new Error('Failed to get 2D context')
                    /\ outcome' = "initThrew"
                    /\ UNCHANGED <<frame, ctxStyle>>
    /\ UNCHANGED <<gvars, cvars, svars, optimizationOptions, pc, call, prevFrame, renderTimes,
                   fpsHistory, nCalls, recorded>>

\* CanvasVisualRenderer.setOptimizationOptions: { ...this.optimizationOptions, ...options }
SetOptimizationOptions(options) ==
    /\ pc = "Idle"
    /\ optimizationOptions' =
          [k \in DOMAIN optimizationOptions |->
              IF k \in DOMAIN options THEN options[k] ELSE optimizationOptions[k]]
    /\ outcome' = "optionsSet"
    /\ lastRender' = NoRender
    /\ UNCHANGED <<gvars, cvars, svars, canvas, ctx, frame, ctxStyle, pc, call, prevFrame,
                   renderTimes, fpsHistory, nCalls, recorded>>

\* renderRouteMap: the guard, startTime and startPerformanceMonitoring
RenderRouteMap(routeData, style) ==
    /\ pc = "Idle"
    /\ nCalls < MaxCalls
    /\ nCalls' = nCalls + 1
    /\ IF ~canvas.present \/ ~ctx
       THEN \* throw new Error('Canvas not initialized')
            /\ outcome' = "notInitialized"
            /\ lastRender' = NoRender
            /\ UNCHANGED <<pc, call, prevFrame, renderTimes, fpsHistory, recorded>>
       ELSE /\ outcome' = "running"
            /\ pc' = "ClearCanvas"
            /\ call' = [NoCall EXCEPT !.routeData = routeData, !.style = style]
            /\ prevFrame' = frame
            /\ lastRender' =
                  IF lastRender.valid /\ lastRender.routeData = routeData
                                      /\ lastRender.style = style
                  THEN lastRender ELSE NoRender
            \* startPerformanceMonitoring
            /\ renderTimes' = <<>>
            /\ fpsHistory' = <<>>
            /\ recorded' = NoSamples
    /\ UNCHANGED <<gvars, cvars, svars, canvas, ctx, optimizationOptions, frame, ctxStyle>>

\* an exception leaves renderRouteMap; the call's locals are gone
Throw ==
    /\ pc' = "Idle"
    /\ outcome' = "threw"
    /\ call' = NoCall
    /\ lastRender' = NoRender
    /\ UNCHANGED recorded

\* CanvasVisualRenderer.clearCanvas
ClearCanvas ==
    /\ pc = "ClearCanvas"
    /\ frame' = <<>>
    /\ call' = [call EXCEPT !.log = Append(@, "ClearCanvas")]
    /\ pc' = "RenderBackground"
    /\ UNCHANGED <<gvars, cvars, svars, canvas, ctx, optimizationOptions, ctxStyle, prevFrame,
                   lastRender, outcome, renderTimes, fpsHistory, nCalls, recorded>>

\* renderBaseMap: the drawing state after strokeStyle = '#f0f0f0', lineWidth = 1
renderBaseMap(style) == [style EXCEPT !.strokeStyle = "#f0f0f0", !.lineWidth = 1]

\* CanvasVisualRenderer.renderBaseMap
RenderBackground ==
    /\ pc = "RenderBackground"
    /\ ctxStyle' = renderBaseMap(ctxStyle)
    /\ frame' = Append(frame, DrawOp("grid", <<>>, 0, ctxStyle'.strokeStyle,
                                     ctxStyle'.shadowBlur))
    /\ call' = [call EXCEPT !.log = Append(@, "RenderBackground")]
    /\ pc' = "OptimizeGeometry"
    /\ UNCHANGED <<gvars, cvars, svars, canvas, ctx, optimizationOptions, prevFrame, lastRender,
                   outcome, renderTimes, fpsHistory, nCalls, recorded>>

\* renderRouteMap: optimizedPath after the LOD and maxPoints steps
optimizePath(path, options, size) ==
    LET lod == IF options.enableLOD THEN applyLOD(path, size) ELSE Returned(path)
    IN  IF lod.threw THEN lod
        ELSE IF options.maxPoints # 0 /\ Len(lod.value) > options.maxPoints
            THEN simplifyPath(lod.value, options.simplificationTolerance)
            ELSE lod

OptimizeGeometry ==
    /\ pc = "OptimizeGeometry"
    /\ LET r == optimizePath(call.routeData.path, optimizationOptions,
                             [width |-> canvas.width, height |-> canvas.height])
       IN  IF r.threw
           THEN Throw
           ELSE /\ pc' = "RenderPath"
                /\ call' = [call EXCEPT !.optimizedPath = r.value,
                                        !.log = Append(@, "OptimizeGeometry")]
                /\ UNCHANGED <<outcome, lastRender, recorded>>
    /\ UNCHANGED <<gvars, cvars, svars, canvas, ctx, optimizationOptions, frame, ctxStyle,
                   prevFrame, renderTimes, fpsHistory, nCalls>>

\* renderRouteMap reads style.colorScheme; renderRoute and renderRoutePath draw the path
RenderPath ==
    /\ pc = "RenderPath"
    /\ IF ~call.style.defined
       THEN \* TypeError: style is undefined
            /\ Throw
            /\ UNCHANGED frame
       ELSE LET pathColor == SchemePrimary(call.style.colorScheme)
                path == call.optimizedPath
                pts == [i \in 1 .. Len(path) |-> [x |-> path[i].x * 100, y |-> path[i].y * 100]]
            IN  /\ UNCHANGED <<outcome, lastRender, recorded>>
                /\ IF Len(path) = 0
                   THEN \* renderRoute returns: no path, no marker
                        /\ pc' = "RecordMetrics"
                        /\ UNCHANGED <<frame, call>>
                   ELSE /\ pc' = "BuildMarkers"
                        /\ call' = [call EXCEPT !.pathColor = pathColor,
                                                !.log = Append(@, "RenderPath")]
                        /\ frame' = IF Len(path) < 2 THEN frame
                                    ELSE Append(frame, DrawOp("path", pts, 0, pathColor,
                                                              ctxStyle.shadowBlur))
    /\ UNCHANGED <<gvars, cvars, svars, canvas, ctx, optimizationOptions, ctxStyle, prevFrame,
                   renderTimes, fpsHistory, nCalls>>

\* renderRoute: routeData.locations.map(...) reads location.coordinates.lng
BuildMarkers ==
    /\ pc = "BuildMarkers"
    /\ LET locations == call.routeData.locations
       IN  IF \E i \in 1 .. Len(locations) : ~locations[i].hasCoordinates
           THEN \* TypeError: coordinates is undefined
                Throw
           ELSE /\ call' = [call EXCEPT
                              !.markers = [i \in 1 .. Len(locations) |->
                                             [label |-> locations[i].name, loc |-> i]],
                              !.next = 1]
                /\ pc' = IF Len(locations) = 0 THEN "RecordMetrics" ELSE "RenderMarkers"
                /\ UNCHANGED <<outcome, lastRender, recorded>>
    /\ UNCHANGED <<gvars, cvars, svars, canvas, ctx, optimizationOptions, frame, ctxStyle,
                   prevFrame, renderTimes, fpsHistory, nCalls>>

\* leaves the shadow of the circle on the context: no ctx.restore()
drawCircleWithShadow_noRestore(style) == [style EXCEPT !.shadowBlur = 4]

\* drawCircleWithShadow: the drawing state it leaves, between ctx.save() and
\* ctx.restore() it sets shadowBlur = 4 (its default: the caller's option object
\* arrives as fillStyle)
drawCircleWithShadow(style) == style

\* the operations and stages of one round of markers.forEach in renderLocationMarkers;
\* the label is drawn with the drawing state the circle has left
markerOps(marker, pathColor, style) ==
    <<DrawOp("marker", <<>>, marker.loc, "#ff4444", 4)>>
    \o (IF marker.label # ""
        THEN <<DrawOp("label", <<>>, marker.loc, "#333333",
                      drawCircleWithShadow(style).shadowBlur)>>
        ELSE <<>>)
markerStages(marker) ==
    <<"RenderMarkers">> \o (IF marker.label # "" THEN <<"RenderLabels">> ELSE <<>>)

\* CanvasVisualRenderer.renderLocationMarkers: one round of markers.forEach
RenderMarker ==
    /\ pc = "RenderMarkers"
    /\ LET marker == call.markers[call.next]
       IN  /\ frame' = frame \o markerOps(marker, call.pathColor, ctxStyle)
           /\ call' = [call EXCEPT !.next = @ + 1, !.log = @ \o markerStages(marker)]
    /\ ctxStyle' = drawCircleWithShadow(ctxStyle)     \* drawTextLabel restores what it sets
    /\ pc' = IF call.next = Len(call.markers) THEN "RecordMetrics" ELSE "RenderMarkers"
    /\ UNCHANGED <<gvars, cvars, svars, canvas, ctx, optimizationOptions, prevFrame, lastRender,
                   outcome, renderTimes, fpsHistory, nCalls, recorded>>

\* when the buffer is full, drops the new sample and keeps the oldest
PushSample_dropNewest(values, v, limit) ==
    IF Len(values) >= limit THEN values ELSE Append(values, v)

\* values.push(v); if (values.length > limit) values.shift()
PushSample(values, v, limit) ==
    LET pushed == Append(values, v)
    IN  IF Len(pushed) > limit THEN Tail(pushed) ELSE pushed

\* renderRouteMap: recordRenderTime(startTime), recordFrame(), return this.canvas
RecordMetrics(renderTime, fps) ==
    /\ pc = "RecordMetrics"
    /\ renderTimes' = PushSample(renderTimes, renderTime, 100)
    /\ fpsHistory' = IF fps > 0 THEN PushSample(fpsHistory, fps, 60) ELSE fpsHistory
    /\ recorded' = [renderTimes |-> recorded.renderTimes + 1,
                    frames |-> IF fps > 0 THEN recorded.frames + 1 ELSE recorded.frames]
    /\ lastRender' = [valid |-> TRUE, routeData |-> call.routeData, style |-> call.style,
                      frame |-> frame]
    /\ call' = NoCall
    /\ pc' = "Idle"
    /\ outcome' = "returned"
    /\ UNCHANGED <<gvars, cvars, svars, canvas, ctx, optimizationOptions, frame, ctxStyle,
                   prevFrame, nCalls>>

\* PerformanceOptimizer.startPerformanceMonitoring
StartPerformanceMonitoring ==
    /\ pc = "Idle"
    /\ fpsHistory' = <<>>
    /\ renderTimes' = <<>>
    /\ recorded' = NoSamples
    /\ UNCHANGED <<gvars, cvars, svars, canvas, ctx, optimizationOptions, frame, ctxStyle, pc,
                   call, prevFrame, lastRender, outcome, nCalls>>

\* PerformanceOptimizer.recordFrame; elapsed is deltaTime > 0.  The sample is
\* written as its ordinal among the samples pushed since the buffer was emptied.
RecordFrame(elapsed) ==
    /\ pc = "Idle"
    /\ recorded.frames < MaxSamples
    /\ IF elapsed
       THEN /\ fpsHistory' = PushSample(fpsHistory, recorded.frames + 1, 60)
            /\ recorded' = [recorded EXCEPT !.frames = @ + 1]
       ELSE UNCHANGED <<fpsHistory, recorded>>
    /\ UNCHANGED <<gvars, cvars, svars, canvas, ctx, optimizationOptions, frame, ctxStyle, pc,
                   call, prevFrame, lastRender, outcome, renderTimes, nCalls>>

\* PerformanceOptimizer.recordRenderTime; the sample is written as its ordinal
RecordRenderTime ==
    /\ pc = "Idle"
    /\ recorded.renderTimes < MaxSamples
    /\ renderTimes' = PushSample(renderTimes, recorded.renderTimes + 1, 100)
    /\ recorded' = [recorded EXCEPT !.renderTimes = @ + 1]
    /\ UNCHANGED <<gvars, cvars, svars, canvas, ctx, optimizationOptions, frame, ctxStyle, pc,
                   call, prevFrame, lastRender, outcome, fpsHistory, nCalls>>

\* PerformanceOptimizer.resetStats
ResetStats ==
    /\ pc = "Idle"
    /\ fpsHistory' = <<>>
    /\ renderTimes' = <<>>
    /\ recorded' = NoSamples
    /\ UNCHANGED <<gvars, cvars, svars, canvas, ctx, optimizationOptions, frame, ctxStyle, pc,
                   call, prevFrame, lastRender, outcome, nCalls>>

(***************************************************************************)
(* PerformanceOptimizer: the canvas cache                                  *)
(***************************************************************************)
\* the keys given to the cache; "" is the empty string
CacheKeys == {"", "a"}

\* an entry of a Map<string, ImageData>; has = FALSE: get(key) is undefined
NoEntry == [has |-> FALSE, pixels |-> <<>>]
EmptyCache == [k \in CacheKeys |-> NoEntry]

\* the canvases given to the cache: "view" is the renderer's canvas, "spare" a
\* second canvas of the same size, "plain" a canvas whose getContext('2d') is
\* null, "empty" a canvas of width 0
Targets == {"view", "spare", "plain", "empty"}
ViewUsable == canvas.present /\ canvas.isCanvas /\ canvas.hasCtx
canvasOf(target) ==
    CASE target = "view" ->
            [hasCtx |-> TRUE, width |-> canvas.width, height |-> canvas.height, pixels |-> frame]
      [] target = "spare" -> [hasCtx |-> TRUE, width |-> 800, height |-> 600, pixels |-> spare]
      [] target = "plain" -> [hasCtx |-> FALSE, width |-> 800, height |-> 600, pixels |-> <<>>]
      [] target = "empty" -> [hasCtx |-> TRUE, width |-> 0, height |-> 600, pixels |-> <<>>]

\* the arguments of clearCache: no argument, or a key
ClearArgs == {[given |-> FALSE, key |-> ""]} \cup {[given |-> TRUE, key |-> k] : k \in CacheKeys}

\* PerformanceOptimizer.cacheCanvas: the cache it leaves; getImageData throws
\* IndexSizeError on a canvas of no area
cacheCanvas(cache, key, c) ==
    IF ~c.hasCtx THEN Returned(cache)
    ELSE IF c.width = 0 \/ c.height = 0 THEN [threw |-> TRUE, value |-> cache]
    ELSE Returned([cache EXCEPT ![key] = [has |-> TRUE, pixels |-> c.pixels]])

\* ImageData of one canvas written at (0, 0) of another of the same size, or of no area
putImageData(imageData, c) == IF c.width = 0 \/ c.height = 0 THEN c.pixels ELSE imageData

\* reports a hit without looking the key up, and writes nothing on a miss
restoreFromCache_alwaysHit(cache, key, c) ==
    IF c.hasCtx
    THEN [result |-> TRUE,
          pixels |-> IF cache[key].has THEN putImageData(cache[key].pixels, c) ELSE c.pixels]
    ELSE [result |-> FALSE, pixels |-> c.pixels]

\* PerformanceOptimizer.restoreFromCache: its result and the bitmap of the canvas after it
restoreFromCache(cache, key, c) ==
    IF cache[key].has /\ c.hasCtx
    THEN [result |-> TRUE, pixels |-> putImageData(cache[key].pixels, c)]
    ELSE [result |-> FALSE, pixels |-> c.pixels]

\* PerformanceOptimizer.clearCache: if (key) delete(key) else clear()
clearCache(cache, arg) ==
    IF arg.given /\ arg.key # ""
    THEN [cache EXCEPT ![arg.key] = NoEntry]
    ELSE EmptyCache

NoCacheOp ==
    [op |-> "none", key |-> "", given |-> FALSE, target |-> "", hasCtx |-> FALSE,
     result |-> FALSE, threw |-> FALSE, before |-> <<>>, after |-> <<>>]

CacheInit ==
    /\ renderCache = EmptyCache
    /\ spare = <<>>
    /\ snapshots = EmptyCache
    /\ cOut = NoCacheOp

\* performanceOptimizer.cacheCanvas(key, canvas)
CacheCanvas(key, target) ==
    /\ pc = "Idle"
    /\ target = "view" => ViewUsable
    /\ LET c == canvasOf(target)
           r == cacheCanvas(renderCache, key, c)
       IN  /\ renderCache' = r.value
           /\ snapshots' = IF c.hasCtx /\ ~r.threw
                           THEN [snapshots EXCEPT ![key] = [has |-> TRUE, pixels |-> c.pixels]]
                           ELSE snapshots
           /\ cOut' = [NoCacheOp EXCEPT !.op = "cacheCanvas", !.key = key, !.given = TRUE,
                                        !.target = target, !.hasCtx = c.hasCtx,
                                        !.threw = r.threw]
    /\ UNCHANGED <<gvars, rvars, svars, spare>>

\* performanceOptimizer.restoreFromCache(key, canvas)
RestoreFromCache(key, target) ==
    /\ pc = "Idle"
    /\ target = "view" => ViewUsable
    /\ LET c == canvasOf(target)
           r == restoreFromCache(renderCache, key, c)
       IN  /\ frame' = IF target = "view" THEN r.pixels ELSE frame
           /\ spare' = IF target = "spare" THEN r.pixels ELSE spare
           /\ cOut' = [NoCacheOp EXCEPT !.op = "restoreFromCache", !.key = key, !.given = TRUE,
                                        !.target = target, !.hasCtx = c.hasCtx,
                                        !.result = r.result, !.before = c.pixels,
                                        !.after = r.pixels]
    /\ UNCHANGED <<gvars, svars, renderCache, snapshots, canvas, ctx, optimizationOptions,
                   ctxStyle, pc, call, prevFrame, lastRender, outcome, renderTimes, fpsHistory,
                   nCalls, recorded>>

\* performanceOptimizer.clearCache(key?); an entry that is gone was evicted
ClearCache(arg) ==
    /\ pc = "Idle"
    /\ renderCache' = clearCache(renderCache, arg)
    /\ snapshots' = [k \in CacheKeys |-> IF renderCache'[k].has THEN snapshots[k] ELSE NoEntry]
    /\ cOut' = [NoCacheOp EXCEPT !.op = "clearCache", !.key = arg.key, !.given = arg.given]
    /\ UNCHANGED <<gvars, rvars, svars, spare>>

(***************************************************************************)
(* PerformanceOptimizer: recommendations and adaptive options              *)
(***************************************************************************)
\* the metrics given to getPerformanceRecommendations and getOptimizedOptions:
\* values on each threshold and on the side of it that triggers
MetricsInputs ==
    [frameRate : {15, 30}, renderTime : {16, 20}, elementCount : {1000, 1500},
     memoryUsage : {[defined |-> FALSE, v |-> 0]} \cup [defined : {TRUE}, v : {0, 100, 150}],
     canvasSize : { [width |-> 2000, height |-> 2000], [width |-> 2001, height |-> 2000] }]

\* includes the threshold itself
frameRateLow_inclusive(metrics) == metrics.frameRate <= 30

\* metrics.frameRate < 30
frameRateLow(metrics) == metrics.frameRate < 30
\* metrics.renderTime > 16
renderTimeHigh(metrics) == metrics.renderTime > 16
\* metrics.elementCount > 1000
elementCountHigh(metrics) == metrics.elementCount > 1000
\* metrics.memoryUsage && metrics.memoryUsage > 100
memoryUsageHigh(metrics) ==
    metrics.memoryUsage.defined /\ metrics.memoryUsage.v # 0 /\ metrics.memoryUsage.v > 100

\* if (condition) recommendations.push(text)
pushIf(recommendations, condition, text) ==
    IF condition THEN Append(recommendations, text) ELSE recommendations

\* PerformanceOptimizer.getPerformanceRecommendations; each text is named by
\* what it recommends
getPerformanceRecommendations(metrics) ==
    LET r1 == pushIf(<<>>, frameRateLow(metrics), "reduce elements or enable LOD")
        r2 == pushIf(r1, renderTimeHigh(metrics), "batch rendering or caching")
        r3 == pushIf(r2, elementCountHigh(metrics), "enable path simplification")
        r4 == pushIf(r3, memoryUsageHigh(metrics), "clear the cache or reduce data")
        canvasPixels == metrics.canvasSize.width * metrics.canvasSize.height
    IN  pushIf(r4, canvasPixels > 4000000, "tiled rendering")

Min(a, b) == IF a <= b THEN a ELSE b
\* Math.max of two tolerances
RatMax(a, b) == IF a.n * b.d >= b.n * a.d THEN a ELSE b

\* getOptimizedOptions: its three steps, each on the options the one before left
tightenForPressure(options, metrics) ==
    IF frameRateLow(metrics) \/ renderTimeHigh(metrics)
    THEN [options EXCEPT !.enableLOD = TRUE,
                         !.maxPoints = Min(500, @),
                         !.simplificationTolerance = RatMax(Rat(3, 1), @),
                         !.batchSize = Min(25, @)]
    ELSE options
tightenForElements(options, metrics) ==
    IF elementCountHigh(metrics)
    THEN [options EXCEPT !.maxPoints = Min(300, @), !.simplificationTolerance = Rat(4, 1)]
    ELSE options
tightenForMemory(options, metrics) ==
    IF memoryUsageHigh(metrics) THEN [options EXCEPT !.enableCaching = FALSE] ELSE options

\* leaves the cache enabled whatever the memory usage
getOptimizedOptions_keepCaching(metrics) ==
    tightenForElements(tightenForPressure(DEFAULT_OPTIONS, metrics), metrics)

\* PerformanceOptimizer.getOptimizedOptions, from a copy of DEFAULT_OPTIONS
getOptimizedOptions(metrics) ==
    tightenForMemory(tightenForElements(tightenForPressure(DEFAULT_OPTIONS, metrics), metrics),
                     metrics)

\* performanceOptimizer.getPerformanceRecommendations(metrics)
GetPerformanceRecommendations(metrics) ==
    /\ gOp' = "getPerformanceRecommendations"
    /\ gArg' = [NoArg EXCEPT !.metrics = metrics]
    /\ gOut' = Returned(getPerformanceRecommendations(metrics))
    /\ UNCHANGED <<points, rvars, cvars, svars>>

\* performanceOptimizer.getOptimizedOptions(metrics)
GetOptimizedOptions(metrics) ==
    /\ gOp' = "getOptimizedOptions"
    /\ gArg' = [NoArg EXCEPT !.metrics = metrics]
    /\ gOut' = Returned(getOptimizedOptions(metrics))
    /\ UNCHANGED <<points, rvars, cvars, svars>>

(***************************************************************************)
(* graphics: label placement                                               *)
(***************************************************************************)
\* the points given to calculateOptimalLabelPositions: near enough to collide,
\* and some with labels exactly 50 apart
LabelPoints ==
    UNION { { [i \in 1 .. n |-> [x |-> xy[i][1], y |-> xy[i][2], id |-> i]] :
                xy \in [1 .. n -> {0, 40} \X {0, 30}] } : n \in 0 .. MaxLabels }
LabelHeights == {0, 30}
MinDistances == {0, 50, 1000}

\* calculateDistance(a, b) < minDistance
closerThan(a, b, minDistance) ==
    /\ minDistance > 0
    /\ (b.x - a.x) * (b.x - a.x) + (b.y - a.y) * (b.y - a.y) < minDistance * minDistance

\* counts a label exactly minDistance away as overlapping
hasOverlap_inclusive(candidate, positions, minDistance) ==
    \E k \in 1 .. Len(positions) :
        (positions[k].x - candidate.x) * (positions[k].x - candidate.x)
          + (positions[k].y - candidate.y) * (positions[k].y - candidate.y)
            <= minDistance * minDistance

\* calculateOptimalLabelPositions: the for loop over positions
hasOverlap(candidate, positions, minDistance) ==
    \E k \in 1 .. Len(positions) : closerThan(candidate, positions[k], minDistance)

\* the candidate tried after attempts rejections
nextCandidate(point, labelHeight, attempts) ==
    IF attempts % 2 = 0
    THEN point.y - labelHeight - (attempts + 1) * 10
    ELSE point.y + labelHeight + attempts * 10

\* calculateOptimalLabelPositions: the while loop, entered with bestY and
\* attempts; gives the position pushed, with the number of candidates rejected
\* (maxAttempts = 10 when the loop ran out)
RECURSIVE placeLabel(_, _, _, _, _, _)
placeLabel(point, positions, labelHeight, minDistance, bestY, attempts) ==
    IF attempts < 10 /\ hasOverlap([x |-> point.x, y |-> bestY], positions, minDistance)
    THEN placeLabel(point, positions, labelHeight, minDistance,
                    nextCandidate(point, labelHeight, attempts), attempts + 1)
    ELSE [x |-> point.x, y |-> bestY, attempts |-> attempts]

\* calculateOptimalLabelPositions: points.forEach, from the point at index
RECURSIVE placeLabels(_, _, _, _, _)
placeLabels(pts, index, positions, labelHeight, minDistance) ==
    IF index > Len(pts) THEN positions
    ELSE placeLabels(pts, index + 1,
                     Append(positions,
                            placeLabel(pts[index], positions, labelHeight, minDistance,
                                       pts[index].y - labelHeight, 0)),
                     labelHeight, minDistance)

\* graphics.calculateOptimalLabelPositions
calculateOptimalLabelPositions(pts, labelHeight, minDistance) ==
    placeLabels(pts, 1, <<>>, labelHeight, minDistance)

LabelInit ==
    /\ points \in LabelPoints
    /\ gOp = "none"
    /\ gArg = NoArg
    /\ gOut = Returned(<<>>)

CalculateOptimalLabelPositions(labelHeight, minDistance) ==
    /\ gOp = "none"
    /\ gOp' = "calculateOptimalLabelPositions"
    /\ gArg' = [NoArg EXCEPT !.labelHeight = labelHeight, !.minDistance = minDistance]
    /\ gOut' = Returned(calculateOptimalLabelPositions(points, labelHeight, minDistance))
    /\ UNCHANGED <<points, rvars, cvars, svars>>

LabelNext ==
    \E labelHeight \in LabelHeights, minDistance \in MinDistances :
        CalculateOptimalLabelPositions(labelHeight, minDistance)

(***************************************************************************)
(* StyleManager                                                            *)
(*                                                                         *)
(* A JavaScript value of a style field is [kind, v]: kind "absent" is a    *)
(* property the object does not have, "undefined", "NaN" and "null" are    *)
(* those values (v is unused), "number" and "string" carry the value in v. *)
(***************************************************************************)
AbsentNum == [kind |-> "absent", v |-> 0]
AbsentStr == [kind |-> "absent", v |-> ""]
Num(n) == [kind |-> "number", v |-> n]
Str(s) == [kind |-> "string", v |-> s]
NaN == [kind |-> "NaN", v |-> 0]
Null == [kind |-> "null", v |-> 0]

\* the keys of COLOR_SCHEMES
Registered(themeId) == themeId \in {"blue", "orange", "green", "purple", "red"}

\* the theme ids given to setCurrentTheme ("custom" is no key of COLOR_SCHEMES)
\* and to createStyleConfig ("" stands for an argument left out)
ThemeIds == {"blue", "green", "custom"}
ConfigThemeIds == {"", "green"}
\* the theme ids custom styles are saved under
StyleKeys == {"blue", "green"}

\* a Partial<StyleConfig> with none of the fields
NoStyle == [colorScheme |-> AbsentStr, lineWidth |-> AbsentNum, fontSize |-> AbsentNum]
\* the Partial<StyleConfig> objects given to saveCustomStyle
StylePatches ==
    { [NoStyle EXCEPT !.colorScheme = Str("red"), !.lineWidth = Num(5)],
      [NoStyle EXCEPT !.lineWidth = NaN] }
\* the overrides given to createStyleConfig
Overrides ==
    { NoStyle,
      [NoStyle EXCEPT !.lineWidth = Num(9)] }

\* DEFAULT_STYLE_CONFIG
DEFAULT_STYLE_CONFIG == [colorScheme |-> Str("blue"), lineWidth |-> Num(6), fontSize |-> Num(16)]

\* an entry of the Map customStyles; has = FALSE: get(themeId) is undefined
NoCustomStyle == [has |-> FALSE, style |-> NoStyle]
NoCustomStyles == [k \in StyleKeys |-> NoCustomStyle]

\* { ...base, ...patch }
Spread(base, patch) ==
    [colorScheme |-> IF patch.colorScheme.kind # "absent" THEN patch.colorScheme
                     ELSE base.colorScheme,
     lineWidth |-> IF patch.lineWidth.kind # "absent" THEN patch.lineWidth ELSE base.lineWidth,
     fontSize |-> IF patch.fontSize.kind # "absent" THEN patch.fontSize ELSE base.fontSize]

\* this.customStyles.get(theme)
getCustomStyle(styles, theme) ==
    IF theme \in StyleKeys /\ styles[theme].has THEN styles[theme].style ELSE NoStyle

\* spreads the overrides before the custom style
createStyleConfig_customWins(theme0, styles, themeId, overrides) ==
    LET theme == IF themeId # "" THEN themeId ELSE theme0
    IN  Spread(Spread([DEFAULT_STYLE_CONFIG EXCEPT !.colorScheme = Str(theme)], overrides),
               getCustomStyle(styles, theme))

\* sets colorScheme after the custom style is spread
createStyleConfig_themeLast(theme0, styles, themeId, overrides) ==
    LET theme == IF themeId # "" THEN themeId ELSE theme0
    IN  Spread([Spread(DEFAULT_STYLE_CONFIG, getCustomStyle(styles, theme))
                   EXCEPT !.colorScheme = Str(theme)],
               overrides)

\* StyleManager.createStyleConfig, theme0 being this.currentTheme
createStyleConfig(theme0, styles, themeId, overrides) ==
    LET theme == IF themeId # "" THEN themeId ELSE theme0
    IN  Spread(Spread([DEFAULT_STYLE_CONFIG EXCEPT !.colorScheme = Str(theme)],
                      getCustomStyle(styles, theme)),
               overrides)

\* a string property whose value is undefined
UndefinedStr == [kind |-> "undefined", v |-> ""]

\* a ColorScheme; truthy = FALSE is the value undefined
ColorScheme(primary, secondary, text, background) ==
    [truthy |-> TRUE, primary |-> Str(primary), secondary |-> Str(secondary),
     text |-> Str(text), background |-> Str(background)]
NoColorScheme ==
    [truthy |-> FALSE, primary |-> UndefinedStr, secondary |-> UndefinedStr,
     text |-> UndefinedStr, background |-> UndefinedStr]

\* keys every object literal inherits from Object.prototype
InheritedKeys == {"toString", "constructor", "valueOf", "hasOwnProperty"}

\* COLOR_SCHEMES[id], a property lookup on an object literal: the scheme of an
\* own key; for an inherited key the function found on Object.prototype, which
\* is truthy and has none of the fields of a ColorScheme; undefined otherwise
COLOR_SCHEMES(id) ==
    CASE id = "blue" -> ColorScheme("#4A90E2", "#357ABD", "#333333", "#F8F9FA")
      [] id = "orange" -> ColorScheme("#FF8C42", "#FF6B35", "#333333", "#FFF8F5")
      [] id = "green" -> ColorScheme("#7ED321", "#5CB85C", "#333333", "#F8FFF8")
      [] id = "purple" -> ColorScheme("#9013FE", "#7B68EE", "#333333", "#FAF8FF")
      [] id = "red" -> ColorScheme("#FF4757", "#FF3838", "#333333", "#FFF8F8")
      [] id \in InheritedKeys -> [NoColorScheme EXCEPT !.truthy = TRUE]
      [] OTHER -> NoColorScheme

\* StyleManager.getColorScheme, theme0 being this.currentTheme
getColorScheme(theme0, themeId) ==
    LET id == IF themeId # "" THEN themeId ELSE theme0
    IN  IF COLOR_SCHEMES(id).truthy THEN COLOR_SCHEMES(id) ELSE COLOR_SCHEMES("blue")

\* DEFAULT_ROUTE_STYLE: its colours and its path width
DEFAULT_ROUTE_STYLE ==
    [pathColor |-> Str("#4A90E2"), pathWidth |-> Num(6), markerColor |-> Str("#FF8C42"),
     labelTextColor |-> Str("#333333"), labelBackgroundColor |-> Str("#FFFFFF"),
     labelBorderColor |-> Str("#E0E0E0")]

\* a Partial<RouteStyle> with none of the fields
NoRouteStyle ==
    [pathColor |-> AbsentStr, pathWidth |-> AbsentNum, markerColor |-> AbsentStr,
     labelTextColor |-> AbsentStr, labelBackgroundColor |-> AbsentStr,
     labelBorderColor |-> AbsentStr]
\* the overrides given to createRouteStyle
RouteOverrides ==
    { NoRouteStyle,
      [NoRouteStyle EXCEPT !.pathColor = Str("#000000"), !.pathWidth = Num(3)] }
\* the theme ids given to createRouteStyle ("" stands for an argument left out)
RouteThemeIds == {"", "green", "custom", "toString"}

\* { ...base, ...patch } for route styles
SpreadRoute(base, patch) ==
    [f \in DOMAIN base |-> IF patch[f].kind # "absent" THEN patch[f] ELSE base[f]]

\* StyleManager.createRouteStyle, theme0 being this.currentTheme
createRouteStyle(theme0, themeId, overrides) ==
    LET colorScheme == getColorScheme(theme0, themeId)
    IN  SpreadRoute([DEFAULT_ROUTE_STYLE EXCEPT
                        !.pathColor = colorScheme.primary,
                        !.markerColor = colorScheme.secondary,
                        !.labelTextColor = colorScheme.text,
                        !.labelBackgroundColor = colorScheme.background],
                    overrides)

\* the listeners given to addThemeChangeListener; the second one throws
ListenerPool == { [id |-> 1, throws |-> FALSE], [id |-> 2, throws |-> TRUE] }

\* the invocations of listeners[1 .. n] with theme
Invocations(listeners, n, theme) ==
    [i \in 1 .. n |-> [listener |-> listeners[i].id, theme |-> theme]]

\* no try/catch around the listener: the first exception ends the forEach
notifyThemeChange_noCatch(listeners, theme) ==
    LET throwing == { i \in 1 .. Len(listeners) : listeners[i].throws }
    IN  IF throwing = {}
        THEN [threw |-> FALSE, calls |-> Invocations(listeners, Len(listeners), theme)]
        ELSE [threw |-> TRUE,
              calls |-> Invocations(listeners,
                                    CHOOSE i \in throwing : \A j \in throwing : i <= j, theme)]

\* walks the listeners from the last to the first
notifyThemeChange_reversed(listeners, theme) ==
    [threw |-> FALSE,
     calls |-> [i \in 1 .. Len(listeners) |->
                  [listener |-> listeners[Len(listeners) + 1 - i].id, theme |-> theme]]]

\* StyleManager.notifyThemeChange: forEach, each listener inside try/catch
notifyThemeChange(listeners, theme) ==
    [threw |-> FALSE, calls |-> Invocations(listeners, Len(listeners), theme)]

\* JSON.stringify of a number and of a string property: a property that is
\* undefined is left out, NaN is written as null
JSONnum(x) == IF x.kind = "undefined" THEN AbsentNum ELSE IF x.kind = "NaN" THEN Null ELSE x
JSONstr(x) == IF x.kind = "undefined" THEN AbsentStr ELSE x
JSONstyle(style) ==
    [colorScheme |-> JSONstr(style.colorScheme), lineWidth |-> JSONnum(style.lineWidth),
     fontSize |-> JSONnum(style.fontSize)]

\* a text: wellFormed = FALSE is no JSON text; otherwise value is what JSON.parse
\* returns for it: null, or an object with or without the two properties
NoConfig ==
    [isNull |-> FALSE, hasTheme |-> FALSE, currentTheme |-> "", hasStyles |-> FALSE,
     customStyles |-> NoCustomStyles]
NotJSON == [wellFormed |-> FALSE, value |-> NoConfig]
OtherTexts ==
    { NotJSON,
      [wellFormed |-> TRUE, value |-> [NoConfig EXCEPT !.isNull = TRUE]],       \* null
      [wellFormed |-> TRUE, value |-> NoConfig] }                               \* {}

\* StyleManager.exportStyleConfig: JSON.stringify({ currentTheme, customStyles:
\* Object.fromEntries(this.customStyles) })
exportStyleConfig(theme, styles) ==
    [wellFormed |-> TRUE,
     value |-> [isNull |-> FALSE, hasTheme |-> TRUE, currentTheme |-> theme, hasStyles |-> TRUE,
                customStyles |->
                   [k \in StyleKeys |->
                       IF styles[k].has
                       THEN [has |-> TRUE, style |-> JSONstyle(styles[k].style)]
                       ELSE NoCustomStyle]]]

\* reads a text that is no JSON as the empty object
JSONparse_lenient(text) ==
    IF text.wellFormed THEN [threw |-> FALSE, value |-> text.value]
    ELSE [threw |-> FALSE, value |-> NoConfig]

\* JSON.parse: SyntaxError on a text that is no JSON
JSONparse(text) ==
    IF text.wellFormed THEN [threw |-> FALSE, value |-> text.value]
    ELSE [threw |-> TRUE, value |-> NoConfig]

\* StyleManager.importStyleConfig: what it returns, the fields it leaves and the
\* listeners it has invoked.  An exception inside try is caught and gives false.
importStyleConfig(theme, styles, listeners, text) ==
    LET parsed == JSONparse(text)
        config == parsed.value
        unchanged == [result |-> FALSE, currentTheme |-> theme, customStyles |-> styles,
                      calls |-> <<>>]
    IN  IF parsed.threw THEN unchanged
        ELSE IF config.isNull THEN unchanged       \* TypeError reading config.currentTheme
        ELSE LET newTheme == IF config.hasTheme /\ config.currentTheme # ""
                             THEN config.currentTheme ELSE theme
                 newStyles == IF config.hasStyles THEN config.customStyles ELSE styles
                 n == notifyThemeChange(listeners, newTheme)
             IN  [result |-> ~n.threw, currentTheme |-> newTheme, customStyles |-> newStyles,
                  calls |-> n.calls]

NoExport ==
    [taken |-> FALSE, text |-> NotJSON, currentTheme |-> "", customStyles |-> NoCustomStyles]
NoStyleOp ==
    [op |-> "none", themeId |-> "", style |-> NoStyle, fromExport |-> FALSE,
     malformed |-> FALSE, result |-> FALSE, threw |-> FALSE, config |-> NoStyle,
     routeOverrides |-> NoRouteStyle, routeStyle |-> NoRouteStyle, before |-> "",
     registered |-> <<>>]

StyleInit ==
    /\ currentTheme = "blue"
    /\ customStyles = NoCustomStyles
    /\ themeChangeListeners = <<>>
    /\ exported = NoExport
    /\ notified = <<>>
    /\ sOut = NoStyleOp

\* StyleManager.setCurrentTheme
SetCurrentTheme(themeId) ==
    /\ IF COLOR_SCHEMES(themeId).truthy
       THEN LET n == notifyThemeChange(themeChangeListeners, themeId)
            IN  /\ currentTheme' = themeId
                /\ notified' = n.calls
                /\ sOut' = [NoStyleOp EXCEPT !.op = "setCurrentTheme", !.themeId = themeId,
                                             !.result = TRUE, !.threw = n.threw,
                                             !.before = currentTheme]
       ELSE \* console.warn
            /\ notified' = <<>>
            /\ sOut' = [NoStyleOp EXCEPT !.op = "setCurrentTheme", !.themeId = themeId,
                                         !.before = currentTheme]
            /\ UNCHANGED currentTheme
    /\ UNCHANGED <<gvars, rvars, cvars, customStyles, themeChangeListeners, exported>>

\* StyleManager.createStyleConfig
CreateStyleConfig(themeId, overrides) ==
    /\ notified' = <<>>
    /\ sOut' = [NoStyleOp EXCEPT
                  !.op = "createStyleConfig", !.themeId = themeId, !.style = overrides,
                  !.result = TRUE,
                  !.config = createStyleConfig(currentTheme, customStyles, themeId, overrides)]
    /\ UNCHANGED <<gvars, rvars, cvars, currentTheme, customStyles, themeChangeListeners,
                   exported>>

\* StyleManager.createRouteStyle
CreateRouteStyle(themeId, overrides) ==
    /\ notified' = <<>>
    /\ sOut' = [NoStyleOp EXCEPT
                  !.op = "createRouteStyle", !.themeId = themeId, !.routeOverrides = overrides,
                  !.result = TRUE,
                  !.routeStyle = createRouteStyle(currentTheme, themeId, overrides)]
    /\ UNCHANGED <<gvars, rvars, cvars, currentTheme, customStyles, themeChangeListeners,
                   exported>>

\* StyleManager.saveCustomStyle
SaveCustomStyle(themeId, style) ==
    /\ customStyles' = [customStyles EXCEPT ![themeId] = [has |-> TRUE, style |-> style]]
    /\ LET n == IF themeId = currentTheme
                THEN notifyThemeChange(themeChangeListeners, themeId)
                ELSE [threw |-> FALSE, calls |-> <<>>]
       IN  /\ notified' = n.calls
           /\ sOut' = [NoStyleOp EXCEPT !.op = "saveCustomStyle", !.themeId = themeId,
                                        !.style = style, !.result = TRUE, !.threw = n.threw]
    /\ UNCHANGED <<gvars, rvars, cvars, currentTheme, themeChangeListeners, exported>>

\* StyleManager.removeCustomStyle
RemoveCustomStyle(themeId) ==
    /\ customStyles' = [customStyles EXCEPT ![themeId] = NoCustomStyle]
    /\ notified' = <<>>
    /\ sOut' = [NoStyleOp EXCEPT !.op = "removeCustomStyle", !.themeId = themeId,
                                 !.result = TRUE]
    /\ UNCHANGED <<gvars, rvars, cvars, currentTheme, themeChangeListeners, exported>>

\* StyleManager.addThemeChangeListener
AddThemeChangeListener(listener) ==
    /\ Len(themeChangeListeners) < MaxListeners
    /\ themeChangeListeners' = Append(themeChangeListeners, listener)
    /\ notified' = <<>>
    /\ sOut' = [NoStyleOp EXCEPT !.op = "addThemeChangeListener", !.result = TRUE]
    /\ UNCHANGED <<gvars, rvars, cvars, currentTheme, customStyles, exported>>

\* StyleManager.removeThemeChangeListener: indexOf, then splice(index, 1)
RemoveThemeChangeListener(listener) ==
    /\ LET found == { i \in 1 .. Len(themeChangeListeners) : themeChangeListeners[i] = listener }
       IN  IF found = {} THEN UNCHANGED themeChangeListeners
           ELSE LET index == CHOOSE i \in found : \A j \in found : i <= j
                IN  themeChangeListeners' =
                       SubSeq(themeChangeListeners, 1, index - 1)
                       \o SubSeq(themeChangeListeners, index + 1, Len(themeChangeListeners))
    /\ notified' = <<>>
    /\ sOut' = [NoStyleOp EXCEPT !.op = "removeThemeChangeListener", !.result = TRUE]
    /\ UNCHANGED <<gvars, rvars, cvars, currentTheme, customStyles, exported>>

\* StyleManager.exportStyleConfig; the text is kept, with the state it was taken in
ExportStyleConfig ==
    /\ exported' = [taken |-> TRUE, text |-> exportStyleConfig(currentTheme, customStyles),
                    currentTheme |-> currentTheme, customStyles |-> customStyles]
    /\ notified' = <<>>
    /\ sOut' = [NoStyleOp EXCEPT !.op = "exportStyleConfig", !.result = TRUE]
    /\ UNCHANGED <<gvars, rvars, cvars, currentTheme, customStyles, themeChangeListeners>>

\* StyleManager.importStyleConfig
ImportStyleConfig(text) ==
    /\ LET r == importStyleConfig(currentTheme, customStyles, themeChangeListeners, text)
       IN  /\ currentTheme' = r.currentTheme
           /\ customStyles' = r.customStyles
           /\ notified' = r.calls
           /\ sOut' = [NoStyleOp EXCEPT !.op = "importStyleConfig",
                                        !.fromExport = exported.taken /\ text = exported.text,
                                        !.malformed = ~text.wellFormed,
                                        !.result = r.result]
    /\ UNCHANGED <<gvars, rvars, cvars, themeChangeListeners, exported>>

\* importStyleConfig of the text the last exportStyleConfig returned
ImportExported ==
    /\ exported.taken
    /\ ImportStyleConfig(exported.text)

\* StyleManager.resetToDefault
ResetToDefault ==
    /\ currentTheme' = "blue"
    /\ customStyles' = NoCustomStyles
    /\ LET n == notifyThemeChange(themeChangeListeners, "blue")
       IN  /\ notified' = n.calls
           /\ sOut' = [NoStyleOp EXCEPT !.op = "resetToDefault", !.themeId = "blue",
                                        !.result = TRUE, !.threw = n.threw]
    /\ UNCHANGED <<gvars, rvars, cvars, themeChangeListeners, exported>>

\* listeners whose callback calls back into the StyleManager: listener 1
\* removes itself, 3 removes listener 2, 4 adds listener 2, 2 does neither
DispatchPool ==
    { [id |-> 1, throws |-> FALSE, does |-> "remove", target |-> 1],
      [id |-> 2, throws |-> FALSE, does |-> "nothing", target |-> 0],
      [id |-> 3, throws |-> FALSE, does |-> "remove", target |-> 2],
      [id |-> 4, throws |-> FALSE, does |-> "add", target |-> 2] }

\* the function a callback holds a reference to
ListenerById(id) == CHOOSE l \in DispatchPool : l.id = id

\* the array after addThemeChangeListener(listener): push
addThemeChangeListener(listeners, listener) == Append(listeners, listener)

\* the array after removeThemeChangeListener(listener): indexOf, splice(index, 1)
removeThemeChangeListener(listeners, listener) ==
    LET found == { i \in 1 .. Len(listeners) : listeners[i] = listener }
    IN  IF found = {} THEN listeners
        ELSE LET index == CHOOSE i \in found : \A j \in found : i <= j
             IN  SubSeq(listeners, 1, index - 1) \o SubSeq(listeners, index + 1, Len(listeners))

\* the array after the callback of listener has run
callListener(listeners, listener) ==
    CASE listener.does = "remove" ->
             removeThemeChangeListener(listeners, ListenerById(listener.target))
      [] listener.does = "add" ->
             addThemeChangeListener(listeners, ListenerById(listener.target))
      [] OTHER -> listeners

\* Array.prototype.forEach as notifyThemeChange runs it: len is the length when
\* the walk started, index k (from 1) is visited when the array still has it,
\* and the array is read afresh at every index
RECURSIVE forEach(_, _, _, _, _)
forEach(listeners, k, len, theme, calls) ==
    IF k > len THEN [listeners |-> listeners, calls |-> calls]
    ELSE IF k > Len(listeners) THEN forEach(listeners, k + 1, len, theme, calls)
    ELSE forEach(callListener(listeners, listeners[k]), k + 1, len, theme,
                 Append(calls, [listener |-> listeners[k].id, theme |-> theme]))

\* StyleManager.setCurrentTheme(theme) for a registered theme, the listeners
\* calling add/removeThemeChangeListener inside their callbacks
NotifyThemeChange(theme) ==
    /\ COLOR_SCHEMES(theme).truthy
    /\ LET n == forEach(themeChangeListeners, 1, Len(themeChangeListeners), theme, <<>>)
       IN  /\ Len(n.listeners) <= MaxListeners
           /\ currentTheme' = theme
           /\ themeChangeListeners' = n.listeners
           /\ notified' = n.calls
           /\ sOut' = [NoStyleOp EXCEPT !.op = "setCurrentTheme", !.themeId = theme,
                                        !.result = TRUE, !.before = currentTheme,
                                        !.registered = themeChangeListeners]
    /\ UNCHANGED <<gvars, rvars, cvars, customStyles, exported>>

DispatchNext ==
    \/ \E listener \in DispatchPool : AddThemeChangeListener(listener)
    \/ \E listener \in DispatchPool : RemoveThemeChangeListener(listener)
    \/ \E theme \in {"blue", "green"} : NotifyThemeChange(theme)

StyleNext ==
    \/ \E themeId \in ThemeIds : SetCurrentTheme(themeId)
    \/ \E themeId \in ConfigThemeIds, overrides \in Overrides :
          CreateStyleConfig(themeId, overrides)
    \/ \E themeId \in StyleKeys, style \in StylePatches : SaveCustomStyle(themeId, style)
    \/ \E themeId \in StyleKeys : RemoveCustomStyle(themeId)
    \/ \E listener \in ListenerPool : AddThemeChangeListener(listener)
    \/ \E listener \in ListenerPool : RemoveThemeChangeListener(listener)
    \/ ExportStyleConfig
    \/ \E text \in OtherTexts : ImportStyleConfig(text)
    \/ ImportExported
    \/ ResetToDefault

\* the theme ids given to setCurrentTheme, an inherited key among them
LookupIds == {"blue", "green", "custom", "toString"}

\* the texts given to importStyleConfig: no JSON, { "currentTheme": "custom" }
ThemeTexts ==
    { NotJSON,
      [wellFormed |-> TRUE,
       value |-> [NoConfig EXCEPT !.hasTheme = TRUE, !.currentTheme = "custom"]] }

ThemeNext ==
    \/ \E themeId \in LookupIds : SetCurrentTheme(themeId)
    \/ \E themeId \in RouteThemeIds, overrides \in RouteOverrides :
          CreateRouteStyle(themeId, overrides)
    \/ \E themeId \in StyleKeys, style \in StylePatches : SaveCustomStyle(themeId, style)
    \/ \E themeId \in StyleKeys : RemoveCustomStyle(themeId)
    \/ \E listener \in ListenerPool : AddThemeChangeListener(listener)
    \/ \E text \in ThemeTexts : ImportStyleConfig(text)
    \/ ResetToDefault

StatsNext ==
    \/ StartPerformanceMonitoring
    \/ \E elapsed \in BOOLEAN : RecordFrame(elapsed)
    \/ RecordRenderTime
    \/ ResetStats

AdvisorNext ==
    \/ \E metrics \in MetricsInputs : GetPerformanceRecommendations(metrics)
    \/ \E metrics \in MetricsInputs : GetOptimizedOptions(metrics)
    \/ \E options \in OptionPatches : SetOptimizationOptions(options)

\* the routes rendered between cache operations
CacheRoutes ==
    { [locations |-> <<>>, path |-> MkPath(<<>>)],
      [locations |-> <<[name |-> "A", hasCoordinates |-> TRUE]>>,
       path |-> MkPath(<< <<0, 0>>, <<1, 1>>, <<2, 0>> >>)] }

\* the canvas given to initCanvas between cache operations
CacheCanvases ==
    { [present |-> TRUE, isCanvas |-> TRUE, width |-> 800, height |-> 600, hasCtx |-> TRUE] }

CacheNext ==
    \/ \E key \in CacheKeys, target \in Targets : CacheCanvas(key, target)
    \/ \E key \in CacheKeys, target \in Targets : RestoreFromCache(key, target)
    \/ \E arg \in ClearArgs : ClearCache(arg)
    \/ \E c \in CacheCanvases : InitCanvas(c)
    \/ \E routeData \in CacheRoutes :
          RenderRouteMap(routeData, [defined |-> TRUE, colorScheme |-> "blue"])
    \/ ClearCanvas
    \/ RenderBackground
    \/ OptimizeGeometry
    \/ RenderPath
    \/ BuildMarkers
    \/ RenderMarker
    \/ \E renderTime \in {20}, fps \in {60} : RecordMetrics(renderTime, fps)

\* a route whose middle point lies 3 off the chord, and one location
LimitRoutes ==
    { [locations |-> <<[name |-> "A", hasCoordinates |-> TRUE]>>,
       path |-> MkPath(<< <<0, 0>>, <<1, 3>>, <<2, 0>> >>)],
      [locations |-> <<>>, path |-> MkPath(<< <<0, 0>>, <<1, 1>>, <<2, 0>> >>)] }

LimitNext ==
    \/ \E c \in CacheCanvases : InitCanvas(c)
    \/ \E options \in OptionPatches : SetOptimizationOptions(options)
    \/ \E routeData \in LimitRoutes :
          RenderRouteMap(routeData, [defined |-> TRUE, colorScheme |-> "blue"])
    \/ ClearCanvas
    \/ RenderBackground
    \/ OptimizeGeometry
    \/ RenderPath
    \/ BuildMarkers
    \/ RenderMarker
    \/ \E renderTime \in {20}, fps \in {60} : RecordMetrics(renderTime, fps)

RenderNext ==
    \/ \E c \in InitCanvases : InitCanvas(c)
    \/ \E options \in OptionPatches : SetOptimizationOptions(options)
    \/ \E path \in RoutePaths, locations \in LocationLists, style \in Styles :
          RenderRouteMap([locations |-> locations, path |-> path], style)
    \/ ClearCanvas
    \/ RenderBackground
    \/ OptimizeGeometry
    \/ RenderPath
    \/ BuildMarkers
    \/ RenderMarker
    \/ \E renderTime \in Durations, fps \in FrameRates : RecordMetrics(renderTime, fps)

\* routes whose locations all carry a name and coordinates
RepeatRoutes ==
    { [locations |-> [i \in 1 .. n |-> [name |-> "A", hasCoordinates |-> TRUE]], path |-> path] :
        n \in 0 .. MaxLocations, path \in RoutePaths }

RepeatNext ==
    \/ \E c \in InitCanvases : InitCanvas(c)
    \/ \E options \in OptionPatches : SetOptimizationOptions(options)
    \/ \E routeData \in RepeatRoutes, style \in Styles : RenderRouteMap(routeData, style)
    \/ ClearCanvas
    \/ RenderBackground
    \/ OptimizeGeometry
    \/ RenderPath
    \/ BuildMarkers
    \/ RenderMarker
    \/ \E renderTime \in Durations, fps \in FrameRates : RecordMetrics(renderTime, fps)

(***************************************************************************)
(* Specifications                                                          *)
(***************************************************************************)
GeometryIdle ==
    /\ points = <<>>
    /\ gOp = "none"
    /\ gArg = NoArg
    /\ gOut = Returned(<<>>)

\* the geometry engine alone
GeometrySpecInit == GeometryInit /\ RenderInit /\ CacheInit /\ StyleInit
GeometrySpec == GeometrySpecInit /\ [][GeometryNext]_vars

\* the renderer, which calls the geometry engine
RenderSpecInit == GeometryIdle /\ RenderInit /\ CacheInit /\ StyleInit
RenderSpec == RenderSpecInit /\ [][RenderNext]_vars

\* the renderer, given routes of labelled locations
RepeatSpecInit == GeometryIdle /\ RenderInit /\ CacheInit /\ StyleInit
RepeatSpec == RepeatSpecInit /\ [][RepeatNext]_vars

\* the canvas cache, beside a renderer that renders
CacheSpecInit == GeometryIdle /\ RenderInit /\ CacheInit /\ StyleInit
CacheSpec == CacheSpecInit /\ [][CacheNext]_vars

\* the StyleManager
StyleSpecInit == GeometryIdle /\ RenderInit /\ CacheInit /\ StyleInit
StyleSpec == StyleSpecInit /\ [][StyleNext]_vars

\* the StyleManager, given theme ids of every kind
ThemeSpecInit == GeometryIdle /\ RenderInit /\ CacheInit /\ StyleInit
ThemeSpec == ThemeSpecInit /\ [][ThemeNext]_vars

\* the advice of the PerformanceOptimizer, beside a renderer whose options change
AdvisorSpecInit == GeometryIdle /\ RenderInit /\ CacheInit /\ StyleInit
AdvisorSpec == AdvisorSpecInit /\ [][AdvisorNext]_vars

\* the sample buffers of the PerformanceOptimizer
StatsSpecInit == GeometryIdle /\ RenderInit /\ CacheInit /\ StyleInit
StatsSpec == StatsSpecInit /\ [][StatsNext]_vars

\* label placement alone
LabelSpecInit == LabelInit /\ RenderInit /\ CacheInit /\ StyleInit
LabelSpec == LabelSpecInit /\ [][LabelNext]_vars

\* the theme-change dispatch with listeners that register and unregister
DispatchSpecInit == GeometryIdle /\ RenderInit /\ CacheInit /\ StyleInit
DispatchSpec == DispatchSpecInit /\ [][DispatchNext]_vars

\* the renderer, given paths longer than maxPoints
LimitSpecInit == GeometryIdle /\ RenderInit /\ CacheInit /\ StyleInit
LimitSpec == LimitSpecInit /\ [][LimitNext]_vars

(***************************************************************************)
(* Properties of the geometry engine (GeometrySpec)                        *)
(***************************************************************************)
Ids(seq) == { seq[k].id : k \in 1 .. Len(seq) }
Simplified == gOp = "simplifyPath"
NonNegative(tolerance) == tolerance.n >= 0
Within(point, lineStart, lineEnd, tolerance) ==
    ~DistExceeds(pointToLineDistance(point, lineStart, lineEnd), tolerance)
Cross(a, b, c) == (b.x - a.x) * (c.y - b.y) - (b.y - a.y) * (c.x - b.x)

\* C1: simplifyPath returns, without throwing, for every finite point sequence
\* and every finite tolerance, whatever the sign of the tolerance.
C1_SimplifyPathTotal == Simplified => ~gOut.threw

\* C2: for a path of at least 2 points and a tolerance >= 0, simplifyPath returns
\* a path whose first element is the first input point and whose last element is
\* the last input point.
C2_EndpointsKept ==
    (Simplified /\ NonNegative(gArg.tolerance) /\ Len(points) >= 2) =>
        /\ ~gOut.threw
        /\ Len(gOut.value) >= 1
        /\ gOut.value[1] = points[1]
        /\ gOut.value[Len(gOut.value)] = points[Len(points)]

C2_Witness ==
    /\ Simplified /\ NonNegative(gArg.tolerance)
    /\ Len(points) >= 4 /\ Len(gOut.value) >= 3 /\ Len(gOut.value) < Len(points)

\* C3: for a tolerance >= 0 the result of simplifyPath is no longer than its
\* input, has at least 2 points when the input has, and is the input itself when
\* the input has at most 2 points.
C3_LengthBounds ==
    (Simplified /\ NonNegative(gArg.tolerance)) =>
        /\ ~gOut.threw
        /\ Len(gOut.value) <= Len(points)
        /\ Len(points) >= 2 => Len(gOut.value) >= 2
        /\ Len(points) <= 2 => gOut.value = points

C3_Witness ==
    /\ Simplified /\ NonNegative(gArg.tolerance)
    /\ Len(points) = MaxLen /\ Len(gOut.value) = 3

\* C4: for a tolerance >= 0, every input point that simplifyPath drops lies
\* between two consecutive output points and within the tolerance of the segment
\* that joins them.
C4_DroppedWithinTolerance ==
    (Simplified /\ NonNegative(gArg.tolerance)) =>
        /\ ~gOut.threw
        /\ \A i \in 1 .. Len(points) :
              points[i].id \notin Ids(gOut.value) =>
                 \E k \in 1 .. Len(gOut.value) - 1 :
                    /\ gOut.value[k].id < i
                    /\ i < gOut.value[k + 1].id
                    /\ Within(points[i], gOut.value[k], gOut.value[k + 1], gArg.tolerance)

C4_Witness ==
    /\ Simplified /\ gArg.tolerance.n > 0 /\ ~gOut.threw
    /\ Len(gOut.value) >= 3
    /\ \E i \in 1 .. Len(points) :
          /\ points[i].id \notin Ids(gOut.value)
          /\ pointToLineDistance(points[i], points[i - 1], points[i + 1]).n > 0

\* C5: for a path of at least 3 points and a tolerance >= 0, simplifyPath returns
\* exactly [first, last] if and only if every interior point is within the
\* tolerance of the segment first-last; a path with a farther interior point
\* keeps more than 2 points; a tolerance larger than the extent of the path gives
\* [first, last], as for (100,100),(200,150),(300,200),(400,250) with tolerance 5.
C5_CollapseIff ==
    (Simplified /\ NonNegative(gArg.tolerance) /\ Len(points) >= 3) =>
        LET first == points[1]
            last == points[Len(points)]
            allWithin == \A i \in 2 .. Len(points) - 1 :
                            Within(points[i], first, last, gArg.tolerance)
        IN  /\ ~gOut.threw
            /\ (gOut.value = <<first, last>>) <=> allWithin
            /\ ~allWithin => Len(gOut.value) > 2
            /\ gArg.tolerance = Rat(5, 1) => gOut.value = <<first, last>>

C5_Witness ==
    /\ Simplified /\ points = ExamplePath /\ gArg.tolerance = Rat(5, 1)
    /\ gOut.value = <<ExamplePath[1], ExamplePath[4]>>

\* C6: with tolerance 0, simplifyPath keeps every interior point at which the
\* input path turns (non-zero cross product with its two neighbours).
C6_TurnsKeptAtZero ==
    (Simplified /\ gArg.tolerance = Zero) =>
        /\ ~gOut.threw
        /\ \A i \in 2 .. Len(points) - 1 :
              Cross(points[i - 1], points[i], points[i + 1]) # 0 =>
                 points[i].id \in Ids(gOut.value)

C6_Witness ==
    /\ Simplified /\ gArg.tolerance = Zero
    /\ Len(gOut.value) < Len(points)
    /\ \E i \in 2 .. Len(points) - 1 : Cross(points[i - 1], points[i], points[i + 1]) # 0

\* C7: for every path and every canvas size, zero-area canvases included,
\* applyLOD returns a path no longer than its input.
C7_LODNoLonger ==
    gOp = "applyLOD" => (~gOut.threw /\ Len(gOut.value) <= Len(points))

C7_Witness ==
    /\ gOp = "applyLOD"
    /\ gArg.canvasSize.width * gArg.canvasSize.height = 0
    /\ Len(points) > 200
    /\ Len(gOut.value) = 3

\* C8: cullOutsideViewport returns the input points that lie in the viewport
\* expanded by the margin, bounds included, in their input order: no point
\* outside is returned and no point inside is removed.
InExpandedViewport(point, viewport, margin) ==
    /\ viewport.x - margin <= point.x
    /\ point.x <= viewport.x + viewport.width + margin
    /\ viewport.y - margin <= point.y
    /\ point.y <= viewport.y + viewport.height + margin

C8_CullExact ==
    gOp = "cullOutsideViewport" =>
        LET out == gOut.value
        IN  /\ ~gOut.threw
            /\ \A k \in 1 .. Len(out) : out[k] = points[out[k].id]
            /\ \A k \in 1 .. Len(out) - 1 : out[k].id < out[k + 1].id
            /\ Ids(out) = { i \in 1 .. Len(points) :
                              InExpandedViewport(points[i], gArg.viewport, gArg.margin) }

C8_Witness ==
    /\ gOp = "cullOutsideViewport"
    /\ Len(gOut.value) >= 2 /\ Len(gOut.value) < Len(points)
    /\ \E k \in 1 .. Len(gOut.value) :
          gOut.value[k].x = gArg.viewport.x + gArg.viewport.width + gArg.margin

(***************************************************************************)
(* Properties of the render pipeline (RenderSpec)                          *)
(***************************************************************************)
\* the place of a stage in Clear, Background, optimization, Path, Markers, Labels, Done
StageRank(stage) ==
    CASE stage = "ClearCanvas" -> 1
      [] stage = "RenderBackground" -> 2
      [] stage = "OptimizeGeometry" -> 3
      [] stage = "RenderPath" -> 4
      [] stage = "RenderMarkers" -> 5
      [] stage = "RenderLabels" -> 6

\* C9: when a stage of renderRouteMap throws after the call has started, the
\* canvas still shows the frame it showed before the call: it is neither
\* cleared nor partially drawn.
C9_FailedRenderKeepsFrame == outcome = "threw" => frame = prevFrame

\* C10: within one renderRouteMap call the stages run in the order ClearCanvas,
\* RenderBackground, geometry optimization, RenderPath, RenderMarkers,
\* RenderLabels: the canvas is cleared before anything is drawn, the path is
\* drawn before any marker, and every marker is drawn before any label.
C10_StageOrder ==
    \A i, j \in 1 .. Len(call.log) :
        i < j => StageRank(call.log[i]) <= StageRank(call.log[j])

(***************************************************************************)
(* Rendering the same route again (RepeatSpec)                             *)
(***************************************************************************)
\* C11: two consecutive renderRouteMap calls on the same initialized renderer,
\* with the same RouteData and StyleConfig and no other operation in between,
\* issue the same sequence of drawing operations: when the second call returns,
\* the canvas holds what it held when the first one returned.
C11_RenderIdempotent ==
    [][(pc = "RecordMetrics" /\ pc' = "Idle" /\ lastRender.valid)
          => frame' = lastRender.frame]_vars

C11_Witness ==
    /\ pc = "RecordMetrics" /\ lastRender.valid
    /\ frame = lastRender.frame
    /\ Len(frame) >= 4
    /\ \E i \in 1 .. Len(frame) : frame[i].op = "label"

(***************************************************************************)
(* Properties of initCanvas (RenderSpec)                                   *)
(***************************************************************************)
\* C12: initCanvas succeeds only on a canvas that yields a 2D context; after an
\* initCanvas that threw, and on a renderer never initialized, no renderRouteMap
\* call gets past its guard: none clears, draws or records a sample, each ends
\* with the error 'Canvas not initialized', until an initCanvas succeeds.
C12_FailedInitBlocksRender ==
    /\ outcome = "initialized" => ViewUsable
    /\ ~ViewUsable =>
          /\ pc = "Idle"
          /\ outcome \in {"none", "initThrew", "optionsSet", "notInitialized"}

(***************************************************************************)
(* Properties of the canvas cache (CacheSpec)                              *)
(***************************************************************************)
\* C13: the cache holds exactly the keys a cacheCanvas call has stored and no
\* clearCache call has evicted since, each with the bitmap its last storing
\* cacheCanvas call read, whatever was rendered in between; restoreFromCache on
\* a canvas with a 2D context returns true exactly for such a key and then
\* writes that bitmap, and otherwise returns false and leaves the canvas as it
\* was.
C13_RestoreExact ==
    /\ \A k \in CacheKeys :
          /\ renderCache[k].has <=> snapshots[k].has
          /\ renderCache[k].has => renderCache[k].pixels = snapshots[k].pixels
    /\ (cOut.op = "restoreFromCache" /\ cOut.hasCtx) =>
          /\ cOut.result <=> snapshots[cOut.key].has
          /\ (cOut.result /\ cOut.target # "empty") => cOut.after = snapshots[cOut.key].pixels
          /\ ~cOut.result => cOut.after = cOut.before

C13_Witness ==
    /\ cOut.op = "restoreFromCache" /\ cOut.target = "spare" /\ cOut.result
    /\ cOut.after # cOut.before
    /\ Len(cOut.after) >= 3
    /\ frame # cOut.after

\* C14: clearCache(k) with a key argument, whatever string k is, evicts only the
\* entry stored under k: every entry under another key stays as it was.  Only
\* clearCache() without a key evicts every entry.
C14_ClearOnlyKey ==
    [][(cOut'.op = "clearCache" /\ cOut'.given)
          => \A k \in CacheKeys \ {cOut'.key} : renderCache'[k] = renderCache[k]]_vars

(***************************************************************************)
(* Properties of the StyleManager (StyleSpec)                              *)
(***************************************************************************)
\* the operation that ended last has dispatched a theme change
Dispatched ==
    \/ sOut.op = "setCurrentTheme" /\ Registered(sOut.themeId)
    \/ sOut.op = "saveCustomStyle" /\ sOut.themeId = currentTheme
    \/ sOut.op = "importStyleConfig" /\ sOut.result
\* every registration invoked once, in registration order, with the current theme
AllNotified ==
    notified = [i \in 1 .. Len(themeChangeListeners) |->
                   [listener |-> themeChangeListeners[i].id, theme |-> currentTheme]]

\* C15: importStyleConfig of the text exportStyleConfig returned in a state A,
\* called in any state B, returns true and leaves currentTheme and customStyles
\* equal to those of A.
C15_ExportImportRoundTrip ==
    (sOut.op = "importStyleConfig" /\ sOut.fromExport) =>
        /\ sOut.result
        /\ currentTheme = exported.currentTheme
        /\ customStyles = exported.customStyles

\* C16: importStyleConfig never throws; it returns false for a text that is no
\* JSON; and whenever it returns false it has left currentTheme and customStyles
\* as they were and has invoked no listener.
C16_ImportFailsCleanly ==
    [][sOut'.op = "importStyleConfig" =>
          /\ ~sOut'.threw
          /\ sOut'.malformed => ~sOut'.result
          /\ ~sOut'.result =>
                /\ currentTheme' = currentTheme
                /\ customStyles' = customStyles
                /\ notified' = <<>>]_vars

C16_Witness ==
    /\ sOut.op = "importStyleConfig" /\ sOut.malformed /\ ~sOut.result
    /\ Len(themeChangeListeners) >= 1
    /\ currentTheme # "blue"
    /\ \E k \in StyleKeys : customStyles[k].has

\* C17: when a registered listener throws during a theme-change dispatch, every
\* registered listener is still invoked with the new theme, the operation does
\* not throw, and currentTheme and customStyles have the values the operation
\* set.
C17_ThrowingListenerIsolated ==
    ((Dispatched \/ sOut.op = "resetToDefault")
        /\ \E i \in 1 .. Len(themeChangeListeners) : themeChangeListeners[i].throws) =>
        /\ ~sOut.threw
        /\ AllNotified
        /\ sOut.op = "setCurrentTheme" => currentTheme = sOut.themeId
        /\ sOut.op = "saveCustomStyle" =>
              customStyles[sOut.themeId] = [has |-> TRUE, style |-> sOut.style]
        /\ sOut.op = "resetToDefault" =>
              (currentTheme = "blue" /\ customStyles = NoCustomStyles)

C17_Witness ==
    /\ sOut.op = "setCurrentTheme" /\ currentTheme = "green"
    /\ Len(themeChangeListeners) = 2
    /\ themeChangeListeners[1].throws /\ ~themeChangeListeners[2].throws
    /\ Len(notified) = 2

\* C18: setCurrentTheme with a registered theme, saveCustomStyle for the current
\* theme and a successful importStyleConfig invoke every registered listener
\* once per registration, in registration order, with the theme that is current
\* after the operation; saveCustomStyle for another theme invokes none.
C18_ListenersNotified ==
    /\ Dispatched => AllNotified
    /\ (sOut.op = "saveCustomStyle" /\ sOut.themeId # currentTheme) => notified = <<>>

C18_Witness ==
    /\ sOut.op = "saveCustomStyle" /\ sOut.themeId = currentTheme
    /\ Len(themeChangeListeners) = 2
    /\ themeChangeListeners[1] # themeChangeListeners[2]
    /\ Len(notified) = 2

\* the value a field resolves to: the override, else the custom style's, else the default
Resolved(override, custom, default) ==
    IF override.kind # "absent" THEN override
    ELSE IF custom.kind # "absent" THEN custom ELSE default

\* C19: createStyleConfig(themeId, overrides) gives every field the value of the
\* overrides if they have the field, else that of the custom style saved for the
\* theme id if it has the field, else the default, which for colorScheme is the
\* theme id (the current theme when no theme id is given); it changes no state
\* of the StyleManager.
C19_CreatePrecedence ==
    [][sOut'.op = "createStyleConfig" =>
          /\ UNCHANGED <<currentTheme, customStyles, themeChangeListeners>>
          /\ LET theme == IF sOut'.themeId # "" THEN sOut'.themeId ELSE currentTheme
                 custom == IF theme \in StyleKeys /\ customStyles[theme].has
                           THEN customStyles[theme].style ELSE NoStyle
                 overrides == sOut'.style
                 config == sOut'.config
             IN  /\ config.colorScheme =
                       Resolved(overrides.colorScheme, custom.colorScheme, Str(theme))
                 /\ config.lineWidth =
                       Resolved(overrides.lineWidth, custom.lineWidth,
                                DEFAULT_STYLE_CONFIG.lineWidth)
                 /\ config.fontSize =
                       Resolved(overrides.fontSize, custom.fontSize,
                                DEFAULT_STYLE_CONFIG.fontSize)]_vars

C19_Witness ==
    /\ sOut.op = "createStyleConfig" /\ sOut.themeId = "green" /\ currentTheme = "blue"
    /\ customStyles["green"].has
    /\ customStyles["green"].style.lineWidth = Num(5)
    /\ sOut.style.lineWidth = Num(9)
    /\ sOut.config = [colorScheme |-> Str("red"), lineWidth |-> Num(9), fontSize |-> Num(16)]

\* the colorScheme field of the custom style saved for a theme, if there is one
CustomColorScheme(theme) ==
    IF theme \in StyleKeys /\ customStyles[theme].has
    THEN customStyles[theme].style.colorScheme ELSE AbsentStr

\* C20, as stated: after setCurrentTheme(t) with a registered theme t, whatever
\* was saved, removed or imported before, createStyleConfig() returns a config
\* whose colorScheme is t.
C20_ThemeIsColorScheme ==
    (sOut.op = "setCurrentTheme" /\ Registered(sOut.themeId)) =>
        createStyleConfig(currentTheme, customStyles, "", NoStyle).colorScheme
            = Str(sOut.themeId)

\* C20, amended: after setCurrentTheme(t) with a registered theme t,
\* createStyleConfig() returns a config whose colorScheme is t unless the custom
\* style saved for t has a colorScheme field, and is that field's value if it has.
C20_ThemeOrCustomColorScheme ==
    (sOut.op = "setCurrentTheme" /\ Registered(sOut.themeId)) =>
        createStyleConfig(currentTheme, customStyles, "", NoStyle).colorScheme
            = IF CustomColorScheme(sOut.themeId).kind # "absent"
              THEN CustomColorScheme(sOut.themeId)
              ELSE Str(sOut.themeId)

C20_Witness ==
    /\ sOut.op = "setCurrentTheme" /\ sOut.themeId = "green"
    /\ CustomColorScheme("green") = Str("red")
    /\ createStyleConfig(currentTheme, customStyles, "", NoStyle).colorScheme = Str("red")
(***************************************************************************)
(* Properties of theme lookup (ThemeSpec)                                  *)
(***************************************************************************)
\* the scheme a theme id stands for: its registered scheme, else the scheme 'blue'
SchemeFor(id) == IF Registered(id) THEN COLOR_SCHEMES(id) ELSE COLOR_SCHEMES("blue")

\* C21: createRouteStyle(themeId, overrides) does not throw and returns the
\* default route style with pathColor, markerColor, labelTextColor and
\* labelBackgroundColor set to primary, secondary, text and background of the
\* scheme registered for themeId (for the current theme when themeId is left
\* out), of the scheme 'blue' when the id is not registered; a field the
\* overrides have wins.
C21_RouteStyleFromScheme ==
    sOut.op = "createRouteStyle" =>
        LET scheme == SchemeFor(IF sOut.themeId # "" THEN sOut.themeId ELSE currentTheme)
            derived == [DEFAULT_ROUTE_STYLE EXCEPT
                           !.pathColor = scheme.primary,
                           !.markerColor = scheme.secondary,
                           !.labelTextColor = scheme.text,
                           !.labelBackgroundColor = scheme.background]
        IN  /\ ~sOut.threw
            /\ \A f \in DOMAIN derived :
                  sOut.routeStyle[f] = IF sOut.routeOverrides[f].kind # "absent"
                                       THEN sOut.routeOverrides[f] ELSE derived[f]

\* C28: after any sequence of setCurrentTheme, saveCustomStyle,
\* removeCustomStyle, importStyleConfig and resetToDefault calls the current
\* theme is a key of COLOR_SCHEMES; setCurrentTheme with an id that is no such
\* key leaves the current theme as it was and invokes no listener.
C28_CurrentThemeRegistered ==
    /\ Registered(currentTheme)
    /\ (sOut.op = "setCurrentTheme" /\ ~Registered(sOut.themeId)) =>
          (currentTheme = sOut.before /\ notified = <<>>)

(***************************************************************************)
(* Properties of the performance advice (AdvisorSpec)                      *)
(***************************************************************************)
\* the five recommendations, in the order of the thresholds
AllRecommendations ==
    << "reduce elements or enable LOD", "batch rendering or caching",
       "enable path simplification", "clear the cache or reduce data", "tiled rendering" >>
\* the threshold of a recommendation holds
ThresholdHolds(text, metrics) ==
    CASE text = "reduce elements or enable LOD" -> metrics.frameRate < 30
      [] text = "batch rendering or caching" -> metrics.renderTime > 16
      [] text = "enable path simplification" -> metrics.elementCount > 1000
      [] text = "clear the cache or reduce data" ->
            metrics.memoryUsage.defined /\ metrics.memoryUsage.v > 100
      [] text = "tiled rendering" ->
            metrics.canvasSize.width * metrics.canvasSize.height > 4000000

\* C22: getPerformanceRecommendations returns, in the fixed order frame rate,
\* render time, element count, memory, canvas area, exactly one recommendation
\* for each threshold that holds and none for the others; frameRate 15,
\* renderTime 20, elementCount 1500 gives the recommendation to reduce elements
\* or enable LOD among them.
C22_RecommendationsExact ==
    gOp = "getPerformanceRecommendations" =>
        /\ ~gOut.threw
        /\ gOut.value = SelectSeq(AllRecommendations,
                                  LAMBDA text : ThresholdHolds(text, gArg.metrics))
        /\ (gArg.metrics.frameRate = 15 /\ gArg.metrics.renderTime = 20
               /\ gArg.metrics.elementCount = 1500) =>
              \E i \in 1 .. Len(gOut.value) : gOut.value[i] = "reduce elements or enable LOD"

C22_Witness ==
    /\ gOp = "getPerformanceRecommendations"
    /\ gArg.metrics.frameRate = 30 /\ gArg.metrics.renderTime = 20
    /\ gArg.metrics.memoryUsage = [defined |-> TRUE, v |-> 150]
    /\ gArg.metrics.canvasSize = [width |-> 2000, height |-> 2000]
    /\ gOut.value = <<"batch rendering or caching", "clear the cache or reduce data">>

\* C23: getOptimizedOptions(metrics) is never looser than DEFAULT_OPTIONS
\* (enableLOD true, maxPoints <= 1000, tolerance >= 2, batchSize <= 50);
\* frameRate < 30 or renderTime > 16 gives maxPoints <= 500, tolerance >= 3 and
\* batchSize 25; elementCount > 1000 gives maxPoints 300 and tolerance 4;
\* enableCaching is false exactly when memoryUsage is defined and > 100.  Every
\* field is fixed by the metrics alone, whatever options the renderer holds, and
\* the call (the step that leaves its result) changes no state of the optimizer
\* or of the renderer.
C23_OptionsTightened ==
    [][gOp' = "getOptimizedOptions" =>
          LET metrics == gArg'.metrics
              options == gOut'.value
              pressure == metrics.frameRate < 30 \/ metrics.renderTime > 16
              crowded == metrics.elementCount > 1000
          IN  /\ ~gOut'.threw
              /\ options.enableLOD
              /\ options.maxPoints <= 1000
              /\ ~DistLess(options.simplificationTolerance, Rat(2, 1))
              /\ options.batchSize <= 50
              /\ pressure => /\ options.maxPoints <= 500
                             /\ ~DistLess(options.simplificationTolerance, Rat(3, 1))
                             /\ options.batchSize = 25
              /\ crowded => /\ options.maxPoints = 300
                            /\ options.simplificationTolerance = Rat(4, 1)
              /\ options.enableCaching <=>
                    ~(metrics.memoryUsage.defined /\ metrics.memoryUsage.v > 100)
              /\ options.maxPoints = IF crowded THEN 300 ELSE IF pressure THEN 500 ELSE 1000
              /\ options.simplificationTolerance =
                    IF crowded THEN Rat(4, 1) ELSE IF pressure THEN Rat(3, 1) ELSE Rat(2, 1)
              /\ options.batchSize = IF pressure THEN 25 ELSE 50
              /\ \/ UNCHANGED <<gOp, gArg, gOut>>
                 \/ UNCHANGED <<optimizationOptions, renderCache, renderTimes, fpsHistory>>]_vars

C23_Witness ==
    /\ gOp = "getOptimizedOptions"
    /\ gArg.metrics.frameRate = 15 /\ gArg.metrics.elementCount = 1500
    /\ gArg.metrics.memoryUsage = [defined |-> TRUE, v |-> 150]
    /\ gOut.value = [enableLOD |-> TRUE, maxPoints |-> 300,
                     simplificationTolerance |-> Rat(4, 1), enableCaching |-> FALSE,
                     batchSize |-> 25]
    /\ optimizationOptions.maxPoints = 2 /\ ~optimizationOptions.enableLOD

(***************************************************************************)
(* Properties of the sample buffers (StatsSpec, RenderSpec)                *)
(***************************************************************************)
\* the last samples of n, at most limit of them, in the order they were recorded
LastSamples(n, limit) ==
    LET len == IF n < limit THEN n ELSE limit
    IN  [i \in 1 .. len |-> n - len + i]

\* C24: after any sequence of recordFrame, recordRenderTime,
\* startPerformanceMonitoring and resetStats calls the frame-rate history holds
\* at most 60 samples and the render-time history at most 100; a sample pushed
\* on a full buffer evicts the oldest one, so each buffer holds the most recent
\* samples in the order they were recorded.
C24_BuffersBounded ==
    /\ Len(fpsHistory) <= 60
    /\ Len(renderTimes) <= 100
    /\ fpsHistory = LastSamples(recorded.frames, 60)
    /\ renderTimes = LastSamples(recorded.renderTimes, 100)

C24_Witness ==
    /\ recorded.renderTimes = MaxSamples /\ Len(renderTimes) = 100
    /\ renderTimes[1] = 3 /\ renderTimes[100] = 102
    /\ recorded.frames = 61 /\ Len(fpsHistory) = 60 /\ fpsHistory[1] = 2

\* C25: samples accumulate across render calls: after k renderRouteMap calls
\* that returned one after the other, with no resetStats in between, the
\* render-time buffer holds the durations of the last min(k, 100) of them.
\* When a call returns right after another call that returned (k >= 2), the
\* buffer holds at least the durations of the two.
C25_SamplesAccumulate ==
    [][(pc = "RecordMetrics" /\ pc' = "Idle" /\ lastRender.valid)
          => Len(renderTimes') >= 2]_vars

(***************************************************************************)
(* Properties of label placement (LabelSpec)                               *)
(***************************************************************************)
\* the square of the distance between two positions
SquaredDistance(a, b) == (b.x - a.x) * (b.x - a.x) + (b.y - a.y) * (b.y - a.y)
\* a label at height y over point i keeps minDistance from the labels placed before it
Clear(i, y) ==
    \A j \in 1 .. i - 1 :
        \/ gArg.minDistance <= 0
        \/ SquaredDistance([x |-> points[i].x, y |-> y], gOut.value[j])
              >= gArg.minDistance * gArg.minDistance
\* the k-th height tried for point i: first above the point, then by turns
\* further up and further down
Tried(i, k) ==
    IF k = 0 THEN points[i].y - gArg.labelHeight
    ELSE IF k % 2 = 1 THEN points[i].y - gArg.labelHeight - k * 10
    ELSE points[i].y + gArg.labelHeight + (k - 1) * 10

\* C26: calculateOptimalLabelPositions returns one position per point, with the
\* point's x; a label is placed at y - labelHeight when that keeps minDistance
\* from every label placed before, otherwise candidates by turns above and
\* below, with growing offsets, are tried, at most 10 attempts; a label
\* accepted before the attempts ran out keeps minDistance from every label
\* placed before it.
C26_LabelsPlaced ==
    gOp = "calculateOptimalLabelPositions" =>
        /\ ~gOut.threw
        /\ Len(gOut.value) = Len(points)
        /\ \A i \in 1 .. Len(points) :
              LET label == gOut.value[i]
              IN  /\ label.x = points[i].x
                  /\ label.attempts \in 0 .. 10
                  /\ label.y = Tried(i, label.attempts)
                  /\ Clear(i, Tried(i, 0)) => label.attempts = 0
                  /\ \A k \in 0 .. label.attempts - 1 : ~Clear(i, Tried(i, k))
                  /\ label.attempts < 10 => Clear(i, label.y)
                  /\ \A k \in 1 .. label.attempts - 1 :
                        /\ Tried(i, k) < Tried(i, 0) <=> k % 2 = 1
                        /\ k >= 3 => (Tried(i, k) - Tried(i, k - 2)) * (2 * (k % 2) - 1) < 0

C26_Witness ==
    /\ gOp = "calculateOptimalLabelPositions"
    /\ Len(points) = 3 /\ gArg.minDistance = 50
    /\ gOut.value[1].attempts = 0
    /\ gOut.value[2].attempts = 2
    /\ gOut.value[3].attempts \in 3 .. 9

C26_WitnessExhausted ==
    /\ gOp = "calculateOptimalLabelPositions"
    /\ \E i \in 1 .. Len(gOut.value) : gOut.value[i].attempts = 10

(***************************************************************************)
(* Properties of the geometry optimization of a render (LimitSpec)         *)
(***************************************************************************)
\* C27: maxPoints limits the drawn path: whatever the route and the
\* optimization options, with maxPoints >= 2, the path that renderRouteMap hands
\* to the path-drawing stage after the geometry optimization has at most
\* maxPoints points.
C27_MaxPointsLimit ==
    (pc = "RenderPath" /\ optimizationOptions.maxPoints >= 2) =>
        Len(call.optimizedPath) <= optimizationOptions.maxPoints

(***************************************************************************)
(* Properties of the theme-change dispatch (DispatchSpec)                  *)
(***************************************************************************)

\* how many times listener occurs in listeners
RECURSIVE Occurrences(_, _)
Occurrences(listeners, listener) ==
    IF listeners = <<>> THEN 0
    ELSE (IF Head(listeners) = listener THEN 1 ELSE 0)
         + Occurrences(Tail(listeners), listener)

\* how many of calls went to the listener with this id
RECURSIVE Deliveries(_, _)
Deliveries(calls, id) ==
    IF calls = <<>> THEN 0
    ELSE (IF Head(calls).listener = id THEN 1 ELSE 0) + Deliveries(Tail(calls), id)

\* C29: a theme-change dispatch delivers exactly once to every listener that
\* was registered (once) when the dispatch started and is still registered when
\* it ends, even when a listener removes itself or another listener, or adds
\* one, inside its callback: no other listener is skipped.
C29_DispatchDeliversOnce ==
    (sOut.op = "setCurrentTheme" /\ sOut.result) =>
        \A listener \in DispatchPool :
            (/\ Occurrences(sOut.registered, listener) = 1
             /\ Occurrences(themeChangeListeners, listener) >= 1)
            => Deliveries(notified, listener.id) = 1

(***************************************************************************)
(* simplifyPath selects points of its input (GeometrySpec)                 *)
(***************************************************************************)

\* output is input taken at strictly increasing indices: element k of output is
\* the input point at index output[k].id, and the indices grow
SelectedInOrder(output, input) ==
    /\ \A k \in 1 .. Len(output) :
          /\ output[k].id \in 1 .. Len(input)
          /\ output[k] = input[output[k].id]
    /\ \A k \in 1 .. Len(output) - 1 : output[k].id < output[k + 1].id

\* C30: for every point sequence p and tolerance >= 0, simplifyPath(p, tol)
\* is a subsequence of p selected at strictly increasing input indices (no point
\* is invented, duplicated or reordered), and the call leaves p as it was.
C30_OrderPreservingSubsequence ==
    [][(gOp = "none" /\ gOp' = "simplifyPath" /\ NonNegative(gArg'.tolerance)) =>
          /\ ~gOut'.threw
          /\ SelectedInOrder(gOut'.value, points)
          /\ points' = points]_vars

C30_Witness ==
    /\ Simplified /\ NonNegative(gArg.tolerance) /\ ~gOut.threw
    /\ Len(points) >= 4
    /\ Len(gOut.value) >= 3
    /\ \E k \in 1 .. Len(gOut.value) - 1 : gOut.value[k + 1].id > gOut.value[k].id + 1

====
